---- MODULE Spec2Model ----
(***************************************************************************)
(* Usage-record subsystem of CLIProxyAPI: the SQLite-backed Store, its     *)
(* bounded write queue and drain goroutine, the gin entry middleware       *)
(* (pending insert + exit patch) and the usage-event plugin (HandleUsage). *)
(*                                                                         *)
(* Text values are sequences of tokens (one-character strings for API      *)
(* keys), so that len(), slicing and strings.TrimSpace are computed.       *)
(* Wall-clock time is counted in seconds.                                  *)
(***************************************************************************)
EXTENDS Integers, Sequences, FiniteSets, TLC

(***************************************************************************)
(* Bounds of the model.                                                    *)
(***************************************************************************)
\* capacity of the writeQueue channel; stands for defaultWriteQueueSize
\* (2048 in part_000:111), scaled down so that a full queue is reachable
QueueCap == 1
\* number of concurrent goroutines calling the Enqueue functions
NumProducers == 2
\* Enqueue calls made over the lifetime of the queue
MaxCalls == 3
\* last instant of the wall clock
MaxTime == 11
\* usage events delivered for one request
MaxEvents == 1
\* direct calls of store operations
MaxStoreCalls == 3
\* goroutines reading through the query cache, and their calls of get
NumReaders == 2
MaxGets == 2
\* writes made while the cache is read
MaxWrites == 2
\* candidate events delivered to the hook
MaxHookEvents == 2
\* attempts reported for the requests of a trace
MaxTraceEvents == 3
\* calls of RecordCandidate
MaxRecordCalls == 1
\* calls of saveSnapshotFile
MaxSaves == 4
\* rows of usage_records the read models insert
MaxRows == 3
\* calls of a read operation in one run of a read model
MaxReads == 1

(***************************************************************************)
(* Program constants.                                                      *)
(***************************************************************************)
\* writeDropLogInterval = 10 * time.Second
writeDropLogInterval == 10
\* queryCache.ttl, in seconds
CacheTTL == 10
\* http.StatusBadRequest, http.StatusInternalServerError
StatusBadRequest == 400
StatusInternalServerError == 500

Producers == 1..NumProducers
Requests == 1..1

writeTaskInsertUsageRecord == "InsertUsageRecord"
writeTaskInsertRequestCandidate == "InsertRequestCandidate"

(***************************************************************************)
(* Strings.                                                                *)
(***************************************************************************)
Empty == << >>
Space == " "

RECURSIVE TrimLeft(_)
TrimLeft(s) ==
  IF s # Empty /\ Head(s) = Space THEN TrimLeft(Tail(s)) ELSE s

RECURSIVE TrimRight(_)
TrimRight(s) ==
  IF s # Empty /\ s[Len(s)] = Space THEN TrimRight(SubSeq(s, 1, Len(s) - 1)) ELSE s

\* strings.TrimSpace
TrimSpace(s) == TrimRight(TrimLeft(s))

\* strings.ToLower, on the letters and mixed-case tokens of the model
UpperCase == <<"A", "B", "C", "E", "K", "S", "T", "X", "Text/Event-Stream">>
LowerCase == <<"a", "b", "c", "e", "k", "s", "t", "x", "text/event-stream">>
ToLowerToken(t) ==
  IF \E i \in DOMAIN UpperCase : UpperCase[i] = t
  THEN LowerCase[CHOOSE i \in DOMAIN UpperCase : UpperCase[i] = t]
  ELSE t
ToLower(s) == [i \in DOMAIN s |-> ToLowerToken(s[i])]

\* strings.Contains
Contains(s, pattern) ==
  \E i \in 0..(Len(s) - Len(pattern)) : SubSeq(s, i + 1, i + Len(pattern)) = pattern

\* strings.Repeat("*", n)
Stars(n) == [i \in 1..n |-> "*"]

\* MaskAPIKey: all stars up to four characters, else the first two and the
\* last two characters around stars
MaskAPIKey(key) ==
  IF Len(key) <= 4
  THEN Stars(Len(key))
  ELSE SubSeq(key, 1, 2) \o Stars(Len(key) - 4) \o SubSeq(key, Len(key) - 1, Len(key))


(***************************************************************************)
(* State.                                                                  *)
(***************************************************************************)
VARIABLES
  rows,            \* table usage_records: a set of rows, each with its id
  nextId,          \* next AUTOINCREMENT id of usage_records
  candidates,      \* table request_candidates, in insertion order
  closed,          \* Store.closed
  writeQueue,      \* Store.writeQueue: the buffered channel, oldest first
  writeStop,       \* Store.writeStop has been closed
  writeDone,       \* Store.writeDone has been closed (writeLoop returned)
  loopTask,        \* the task writeLoop has received and not yet processed
  writeDropLogAt,  \* Store.writeDropLogAt (atomic), 0 = never
  now,             \* wall clock, seconds
  dropLogs,        \* emission times of the "queue is full" warnings
  ppc,             \* position of each producer goroutine inside Enqueue*
  plocal,          \* locals of each producer: task, now, last
  calls,           \* number of write tasks created so far (task identity)
  accepted,        \* tasks whose Enqueue returned true
  acceptedBeforeStop, \* ... and did so before writeStop was closed
  rejected,        \* tasks whose Enqueue returned false
  attempted,       \* tasks writeLoop took off the queue, in order
  insertLog,       \* tasks writeLoop inserted into the database, in order
  req,             \* per request: gin context, middleware position, history
  usageEvents,     \* number of usage events delivered to HandleUsage
  spawned,         \* records handed to `go func() { store.Insert }`, not yet inserted
  lastCall,        \* the last direct call of a store operation and its outcome
  entries,         \* queryCache.entries: key -> entry
  sfMap,           \* queryCache.sf: key -> the reader running its call (0 = none)
  gpc,             \* position of each reader goroutine inside queryCache.get
  glocal,          \* locals of each reader, and the result it last returned
  wpc,             \* position of the writer goroutine inside PatchByID
  dbSeq,           \* number of writes the database has executed
  doneSeq,         \* number of writes whose store operation has returned
  clearedSeq,      \* number of writes executed when queryCache.clear last returned
  gets,            \* number of queryCache.get calls started
  enabled,         \* Plugin.enabled
  installed,       \* which of tokenIncrementor, usageIncrementor are set
  tokenCalls,      \* the calls of tokenIncrementor: <<api key, input, output>>
  usageCalls,      \* the calls of usageIncrementor: <<api key>>
  usageLog,        \* per usage event: what HandleUsage did with it
  goCandidates,    \* candidates handed to the hook's goroutine, not yet inserted
  hookLog,         \* per candidate event: whether a write was submitted
  snapFile,        \* the file at the snapshot path: NoFile or its content
  tmpLeft,         \* temporary files left in the snapshot directory
  snapPc,          \* position inside saveSnapshotFile
  snapCall,        \* the current or last call of saveSnapshotFile
  cleaner,         \* the RetentionCleaner: its fields, its loop, its Stop callers
  persist,         \* StartSnapshotPersistence: dirty flag, ticker loop, history
  defaultStore,    \* the default Store singleton and its callers
  patcher          \* PatchByID and Close callers of one Store under Store.mu

storeVars == <<rows, nextId, candidates, closed>>
queueVars == <<writeQueue, writeStop, writeDone, loopTask>>
dropVars == <<writeDropLogAt, dropLogs>>
producerVars == <<ppc, plocal>>
eventVars == <<usageEvents, spawned>>
lifeVars == <<req, usageEvents, spawned>>
ghostVars == <<calls, accepted, acceptedBeforeStop, rejected, attempted, insertLog>>
storeCallVars == <<lastCall>>
cacheVars == <<entries, sfMap, gpc, glocal, wpc, dbSeq, doneSeq, clearedSeq, gets>>
pluginVars == <<enabled, installed, tokenCalls, usageCalls, usageLog>>
hookVars == <<goCandidates, hookLog>>
snapVars == <<snapFile, tmpLeft, snapPc, snapCall>>
lateVars == <<cleaner, persist, defaultStore, patcher>>
newVars == <<storeCallVars, cacheVars, pluginVars, hookVars, snapVars, lateVars>>
vars == <<rows, nextId, candidates, closed, writeQueue, writeStop, writeDone,
          loopTask, writeDropLogAt, now, dropLogs, ppc, plocal, calls,
          accepted, acceptedBeforeStop, rejected, attempted, insertLog, req,
          usageEvents, spawned, newVars>>

Nil == [nil |-> TRUE]
NoCall == [seq |-> 0, op |-> "none", err |-> "none"]

(***************************************************************************)
(* Time. A time.Time is an instant (seconds) with the offset of its        *)
(* location; Format(time.RFC3339) prints the wall clock of that location,  *)
(* zero padded, followed by the zone ("Z" or "+hh:00").                    *)
(***************************************************************************)
\* offset of time.Local, the location of time.Now()
Local == 0
\* offsets of the locations a caller's time.Time may carry
TZOffsets == {0, 10}

ZeroTime == [sec |-> 0, off |-> 0]
\* time.Now()
TimeNow == [sec |-> now, off |-> Local]
\* t.IsZero()
IsZero(t) == t.sec = 0
\* time.Since(t).Milliseconds()
SinceMs(t) == (now - t.sec) * 1000

Digit(d) == <<"0", "1", "2", "3", "4", "5", "6", "7", "8", "9">>[d + 1]
TwoDigits(n) == <<Digit((n \div 10) % 10), Digit(n % 10)>>

\* the wall clock, day and hour, that a zone offset hours east of UTC shows
\* at the instant given by its UTC day and hour
WallClock(instant, offset) ==
  [day |-> instant.day + ((instant.hour + offset) \div 24),
   hour |-> (instant.hour + offset) % 24]

\* t.Format(time.RFC3339): the wall clock of t's zone, then "Z" or the
\* offset; a time of the lifecycle models is [sec, off], a time of the
\* calendar models [day, hour, off], whose date is written as the number
\* of its day
FormatRFC3339(t) ==
  (IF "day" \in DOMAIN t
   THEN <<WallClock(t, t.off).day, "T">> \o TwoDigits(WallClock(t, t.off).hour)
   ELSE TwoDigits(t.sec + t.off))
    \o (IF t.off = 0 THEN <<"Z">>
        ELSE <<"+">> \o TwoDigits(t.off) \o <<":", "0", "0">>)

\* byte order of the characters of a formatted time
CharCode(c) ==
  CASE c = "+" -> 43
    [] c = ":" -> 58
    [] c = "Z" -> 90
    [] c = "m" -> 109
    [] c = "p" -> 112
    [] OTHER -> 48 + (CHOOSE d \in 0..9 : Digit(d) = c)

\* a < b for TEXT values in SQLite (BINARY collation: bytewise)
RECURSIVE TextLess(_, _)
TextLess(a, b) ==
  IF b = << >> THEN FALSE
  ELSE IF a = << >> THEN TRUE
  ELSE IF CharCode(Head(a)) # CharCode(Head(b))
  THEN CharCode(Head(a)) < CharCode(Head(b))
  ELSE TextLess(Tail(a), Tail(b))
NoTask == [kind |-> "none"]

\* a nil map[string]string, which json.Marshal writes as null
NilMap == {<<"null">>}

\* Record{}: the zero value of a usage record
ZeroRecord ==
  [id |-> 0, request_id |-> Empty, timestamp |-> ZeroTime, ip |-> Empty,
   api_key |-> Empty, api_key_masked |-> Empty, model |-> Empty,
   provider |-> Empty, is_streaming |-> FALSE, input_tokens |-> 0,
   output_tokens |-> 0, total_tokens |-> 0, cached_tokens |-> 0,
   reasoning_tokens |-> 0, duration_ms |-> 0, status_code |-> 0,
   success |-> FALSE, request_url |-> Empty, request_method |-> Empty,
   request_headers |-> NilMap, request_body |-> Empty,
   response_headers |-> NilMap, response_body |-> Empty]

\* RequestCandidate{}: the zero value of a candidate row
ZeroCandidate ==
  [request_id |-> Empty, timestamp |-> ZeroTime, provider |-> Empty,
   api_key |-> Empty, api_key_masked |-> Empty, status |-> Empty,
   status_code |-> 0, success |-> FALSE, duration_ms |-> 0,
   error_message |-> Empty, candidate_index |-> 0, retry_index |-> 0]

\* the payloads the producer goroutines hand to the Enqueue functions
ProducerRecords == {Nil, [ZeroRecord EXCEPT !.request_id = <<"q">>]}
ProducerCandidates == {Nil, [ZeroCandidate EXCEPT !.request_id = <<"q">>]}

(***************************************************************************)
(* Store: Insert, PatchByID, Close.                                        *)
(***************************************************************************)
\* Store.isClosed: reads Store.closed under the store mutex
isClosed == closed

\* the row written by Store.Insert: every column of the record, the
\* timestamp as record.Timestamp.Format(time.RFC3339), with the id the table
\* assigns
InsertedRow(record) ==
  [record EXCEPT !.id = nextId, !.timestamp = FormatRFC3339(record.timestamp)]


\* the value PatchByID binds for a non-nil field: the field's value, the
\* timestamp as patch.Timestamp.Format(time.RFC3339)
PatchArg(col, v) == IF col = "timestamp" THEN FormatRFC3339(v) ELSE v

\* the row after UPDATE usage_records SET <non-nil fields of patch>
PatchedRowReplacing(row, patch) ==
  [col \in DOMAIN row |->
     IF col \in DOMAIN patch THEN PatchArg(col, patch[col])
     ELSE IF col = "id" THEN row.id
     ELSE InsertedRow(ZeroRecord)[col]]

PatchedRow(row, patch) ==
  [col \in DOMAIN row |->
     IF col \in DOMAIN patch THEN PatchArg(col, patch[col]) ELSE row[col]]

\* the table after PatchByID(id, patch) executed its UPDATE ... WHERE id = ?
PatchByIDRowsEveryRow(id, patch) ==
  { PatchedRow(row, patch) : row \in rows }

PatchByIDRows(id, patch) ==
  { IF row.id = id THEN PatchedRow(row, patch) ELSE row : row \in rows }

\* the row written by Store.InsertRequestCandidate
InsertedCandidate(candidate) ==
  [candidate EXCEPT !.timestamp = FormatRFC3339(candidate.timestamp)]

\* PatchByID returns an error: closed store, invalid id, or a database error
PatchByIDFails(id, dbOK) == isClosed \/ id <= 0 \/ ~dbOK

\* Store.Close
Close ==
  /\ ~closed
  /\ closed' = TRUE
  /\ UNCHANGED <<rows, nextId, candidates, queueVars, dropVars, now,
                 producerVars, ghostVars, lifeVars, newVars>>

(***************************************************************************)
(* Write queue: stopWriteQueue and writeLoop.                              *)
(***************************************************************************)
\* stopWriteQueue: close(writeStop) unless already closed, then wait for
\* writeDone or 2 seconds (the wait changes no state)
stopWriteQueue ==
  /\ ~writeStop
  /\ writeStop' = TRUE
  /\ UNCHANGED <<storeVars, writeQueue, writeDone, loopTask, dropVars, now,
                 producerVars, ghostVars, lifeVars, newVars>>

\* writeLoop, select case <-s.writeStop: return, and the deferred
\* close(s.writeDone)
writeLoopStop ==
  /\ ~writeDone
  /\ loopTask = NoTask
  /\ writeStop
  /\ writeDone' = TRUE
  /\ UNCHANGED <<storeVars, writeQueue, writeStop, loopTask, dropVars, now,
                 producerVars, ghostVars, lifeVars, newVars>>

\* the queue after writeLoop received its head
ReceivedQueueKeepingHead(q) == q

ReceivedQueue(q) == Tail(q)

\* writeLoop, select case task := <-s.writeQueue
writeLoopReceive ==
  /\ ~writeDone
  /\ loopTask = NoTask
  /\ writeQueue # << >>
  /\ loopTask' = Head(writeQueue)
  /\ writeQueue' = ReceivedQueue(writeQueue)
  /\ attempted' = Append(attempted, Head(writeQueue).tid)
  /\ UNCHANGED <<storeVars, writeStop, writeDone, dropVars, now,
                 producerVars, calls, accepted, acceptedBeforeStop, rejected,
                 insertLog, lifeVars, newVars>>

\* writeLoop after a task whose write returned err: the error is logged, and
\* the for loop goes on to the next select
WriteLoopReturnsOnError(err) == err
WriteLoopReturns(err) == FALSE

\* writeLoop, body of the task case: skip when the store is closed, else
\* Insert / InsertRequestCandidate under the 5 s timeout; an error is
\* logged and the loop goes on
writeLoopProcess ==
  /\ ~writeDone
  /\ loopTask # NoTask
  /\ loopTask' = NoTask
  /\ \E dbOK \in BOOLEAN :
       /\ writeDone' = WriteLoopReturns(~isClosed /\ ~dbOK)
       /\ IF isClosed \/ ~dbOK
          THEN UNCHANGED <<rows, nextId, candidates, insertLog>>
          ELSE /\ insertLog' = Append(insertLog, loopTask.tid)
               /\ IF loopTask.kind = writeTaskInsertUsageRecord
                  THEN /\ rows' = rows \cup {InsertedRow(loopTask.usageRecord)}
                       /\ nextId' = nextId + 1
                       /\ UNCHANGED candidates
                  ELSE /\ candidates' = Append(candidates,
                                               InsertedCandidate(loopTask.requestCandidate))
                       /\ UNCHANGED <<rows, nextId>>
  /\ UNCHANGED <<closed, writeQueue, writeStop, dropVars, now,
                 producerVars, calls, accepted, acceptedBeforeStop, rejected,
                 attempted, lifeVars, newVars>>

\* the wall clock advances, by one drop-log interval at a time
Tick ==
  /\ now + writeDropLogInterval <= MaxTime
  /\ now' = now + writeDropLogInterval
  /\ UNCHANGED <<storeVars, queueVars, dropVars, producerVars, ghostVars, lifeVars,
                 newVars>>


(***************************************************************************)
(* Write queue: EnqueueUsageRecord, EnqueueRequestCandidate, logWriteDrop. *)
(* A producer goroutine p runs one call at a time; the closed check, the   *)
(* channel send, the atomic Load and the atomic Store are separate steps.  *)
(***************************************************************************)
\* select { case s.writeQueue <- task: ... default: ... }: the send case is
\* ready when the channel buffer has room
SendReadyIgnoringCap(q) == TRUE

SendReady(q) == Len(q) < QueueCap


\* logWriteDrop's throttle: the warning is suppressed
DropLogSuppressed(last, t) == last > 0 /\ t - last < writeDropLogInterval

\* entry of an Enqueue function: nil receiver/argument, closed store
EnqueueEnter(p, task) ==
  /\ ppc[p] = "idle"
  /\ calls < MaxCalls
  /\ calls' = calls + 1
  /\ IF task.payload = Nil \/ isClosed
     THEN /\ rejected' = rejected \cup {calls + 1}
          /\ UNCHANGED producerVars
     ELSE /\ ppc' = [ppc EXCEPT ![p] = "send"]
          /\ plocal' = [plocal EXCEPT ![p].task = [task EXCEPT !.tid = calls + 1]]
          /\ UNCHANGED rejected
  /\ UNCHANGED <<storeVars, queueVars, dropVars, now, accepted,
                 acceptedBeforeStop, attempted, insertLog, lifeVars, newVars>>

UsageTask(record) ==
  [kind |-> writeTaskInsertUsageRecord, tid |-> 0, payload |-> record,
   usageRecord |-> record]

CandidateTask(candidate) ==
  [kind |-> writeTaskInsertRequestCandidate, tid |-> 0, payload |-> candidate,
   requestCandidate |-> candidate]

EnqueueUsageRecord(p) ==
  \E record \in ProducerRecords : EnqueueEnter(p, UsageTask(record))

EnqueueRequestCandidate(p) ==
  \E candidate \in ProducerCandidates : EnqueueEnter(p, CandidateTask(candidate))

\* the select of both Enqueue functions: send and return true, or take the
\* default branch into logWriteDrop
EnqueueSend(p) ==
  /\ ppc[p] = "send"
  /\ IF SendReady(writeQueue)
     THEN /\ writeQueue' = Append(writeQueue, plocal[p].task)
          /\ accepted' = accepted \cup {plocal[p].task.tid}
          /\ acceptedBeforeStop' =
               IF writeStop THEN acceptedBeforeStop
               ELSE acceptedBeforeStop \cup {plocal[p].task.tid}
          /\ ppc' = [ppc EXCEPT ![p] = "idle"]
     ELSE /\ ppc' = [ppc EXCEPT ![p] = "drop"]
          /\ UNCHANGED <<writeQueue, accepted, acceptedBeforeStop>>
  /\ UNCHANGED <<storeVars, writeStop, writeDone, loopTask, dropVars, now,
                 plocal, calls, rejected, attempted, insertLog, lifeVars, newVars>>

\* logWriteDrop: now := time.Now(); last := s.writeDropLogAt.Load()
logWriteDropLoad(p) ==
  /\ ppc[p] = "drop"
  /\ ppc' = [ppc EXCEPT ![p] = "check"]
  /\ plocal' = [plocal EXCEPT ![p].now = now, ![p].last = writeDropLogAt]
  /\ UNCHANGED <<storeVars, queueVars, dropVars, now, ghostVars, lifeVars, newVars>>

\* logWriteDrop: the interval check, s.writeDropLogAt.Store(now) and the
\* warning; then the Enqueue function returns false
logWriteDropStore(p) ==
  /\ ppc[p] = "check"
  /\ ppc' = [ppc EXCEPT ![p] = "idle"]
  /\ IF DropLogSuppressed(plocal[p].last, plocal[p].now)
     THEN UNCHANGED dropVars
     ELSE /\ writeDropLogAt' = plocal[p].now
          /\ dropLogs' = Append(dropLogs, now)
  /\ rejected' = rejected \cup {plocal[p].task.tid}
  /\ UNCHANGED <<storeVars, queueVars, now, plocal, calls, accepted,
                 acceptedBeforeStop, attempted, insertLog, lifeVars, newVars>>


(***************************************************************************)
(* Header capture: isSensitiveHeader, maskValue, captureHeadersBestEffort. *)
(* An http.Header is a set of [key, values] entries; the captured map is a *)
(* set of <<key, value>> pairs.                                            *)
(***************************************************************************)
sensitivePatterns ==
  { <<"a", "u", "t", "h", "o", "r", "i", "z", "a", "t", "i", "o", "n">>,
    <<"x", "-", "a", "p", "i", "-", "k", "e", "y">>,
    <<"a", "p", "i", "-", "k", "e", "y">>,
    <<"x", "-", "g", "o", "o", "g", "-", "a", "p", "i", "-", "k", "e", "y">>,
    <<"c", "o", "o", "k", "i", "e">>,
    <<"s", "e", "t", "-", "c", "o", "o", "k", "i", "e">>,
    <<"x", "-", "m", "a", "n", "a", "g", "e", "m", "e", "n", "t", "-", "k", "e", "y">> }

isSensitiveHeader(key) ==
  \E pattern \in sensitivePatterns : Contains(ToLower(key), pattern)

maskValue(value) ==
  IF Len(value) <= 8
  THEN Stars(Len(value))
  ELSE SubSeq(value, 1, 4) \o <<".", ".", ".">> \o SubSeq(value, Len(value) - 3, Len(value))

captureHeadersBestEffort(headers) ==
  { <<h.key, IF isSensitiveHeader(h.key) THEN maskValue(h.values[1]) ELSE h.values[1]>> :
      h \in { x \in headers : Len(x.values) > 0 } }

\* c.Request.Header of the requests of the model
RequestHeader ==
  { [key |-> <<"A", "u", "t", "h", "o", "r", "i", "z", "a", "t", "i", "o", "n">>,
     values |-> << <<"B", "e", "a", "r", "e", "r", " ", "s", "k", "-", "1", "2", "3">> >>],
    [key |-> <<"X", "-", "A", "p", "i", "-", "K", "e", "y">>,
     values |-> << <<"s", "k", "-", "1", "2", "3">> >>],
    [key |-> <<"X", "-", "S", "e", "c", "r", "e", "t", "-", "K", "e", "y">>,
     values |-> << <<"t", "o", "p", "s", "e", "c", "r", "e", "t", "9">> >>],
    [key |-> <<"A", "c", "c", "e", "p", "t">>, values |-> << <<"*/*">> >>],
    [key |-> <<"X", "-", "E", "m", "p", "t", "y">>, values |-> << >>] }

\* c.Writer.Header(): the Content-Type and the cookie the handler set, if any
WriterHeader(contentType) ==
  IF contentType = Empty THEN {}
  ELSE { [key |-> <<"C", "o", "n", "t", "e", "n", "t", "-", "T", "y", "p", "e">>,
          values |-> <<contentType>>],
         [key |-> <<"S", "e", "t", "-", "C", "o", "o", "k", "i", "e">>,
          values |-> << <<"s", "i", "d", "=", "0", "1", "2", "3", "4", "5">> >>] }

\* one whole Enqueue call made by a goroutine nothing else interleaves with:
\* the checks, the select and, on a full queue, logWriteDrop
EnqueueWhole(task) ==
  LET t == [task EXCEPT !.tid = calls + 1] IN
  /\ calls' = calls + 1
  /\ IF task.payload = Nil \/ isClosed
     THEN /\ rejected' = rejected \cup {t.tid}
          /\ UNCHANGED <<writeQueue, accepted, acceptedBeforeStop, dropVars>>
     ELSE IF SendReady(writeQueue)
     THEN /\ writeQueue' = Append(writeQueue, t)
          /\ accepted' = accepted \cup {t.tid}
          /\ acceptedBeforeStop' =
               IF writeStop THEN acceptedBeforeStop
               ELSE acceptedBeforeStop \cup {t.tid}
          /\ UNCHANGED <<rejected, dropVars>>
     ELSE /\ rejected' = rejected \cup {t.tid}
          /\ IF DropLogSuppressed(writeDropLogAt, now)
             THEN UNCHANGED dropVars
             ELSE /\ writeDropLogAt' = now
                  /\ dropLogs' = Append(dropLogs, now)
          /\ UNCHANGED <<writeQueue, accepted, acceptedBeforeStop>>

(***************************************************************************)
(* The gin context of a request and the values external collaborators put  *)
(* into it.  A context value is NoValue (key not set) or [type, val].       *)
(***************************************************************************)
NoValue == [type |-> "unset"]
Bytes(v) == [type |-> "bytes", val |-> v]
String(v) == [type |-> "string", val |-> v]
Bool(v) == [type |-> "bool", val |-> v]

\* request methods and request ids (logging.GetGinRequestID) of the model
Methods == {"POST", "GET"}
RequestIDs == {Empty, <<"r1">>}

\* c.Get("apiKey")
CtxAPIKeys == {NoValue, String(<<Space>>), String(<<"s", "k", "-", "x", "y">>)}
\* c.Get("is_streaming") and the response Content-Type
JSONType == <<"application/json">>
EventStreamType == <<"Text/Event-Stream", ";", "charset=utf-8">>
CtxStreaming == {<<NoValue, JSONType>>, <<Bool(TRUE), JSONType>>,
                 <<NoValue, EventStreamType>>}
\* response_body_for_log, API_RESPONSE, c.Errors.String()
CtxBodies == {<<NoValue, NoValue, Empty>>,
              <<Bytes(<<"resp">>), Bytes(<<"api">>), <<"Error #01: e">>>>,
              <<String(<<Space>>), Bytes(<<"api">>), <<"Error #01: e">>>>,
              <<NoValue, Bytes(<<Space>>), <<"Error #01: e", Space>>>>}
\* c.Writer.Status()
StatusCodes == {101, 200, 404, 502}
\* the contexts a handler leaves behind: the defaults (nothing set, status
\* 200) changed in at most one of the four groups above
Deviations(k, st, b, code) ==
  (IF k = NoValue THEN 0 ELSE 1)
  + (IF st = <<NoValue, JSONType>> THEN 0 ELSE 1)
  + (IF b = <<NoValue, NoValue, Empty>> THEN 0 ELSE 1)
  + (IF code = 200 THEN 0 ELSE 1)
Contexts ==
  { x \in CtxAPIKeys \X CtxStreaming \X CtxBodies \X StatusCodes :
      Deviations(x[1], x[2], x[3], x[4]) <= 1 }
\* values a handler panics with, as fmt.Sprint prints them
NoPanic == [panic |-> FALSE]
Panic(msg) == [panic |-> TRUE, msg |-> msg]
PanicValues == {Panic(<<"boom">>), Panic(<<Space, "boom", Space>>), Panic(Empty)}

\* coreusage.Record: the usage events of the model
EventAPIKeys == {Empty, <<"a", "b", "c">>, <<"s", "k", "-", "l", "o", "n", "g">>}
UsageEvents ==
  [APIKey : EventAPIKeys, Provider : {<<"openai">>}, Model : {<<"m1">>},
   RequestedAt : {ZeroTime}, Failed : BOOLEAN, InputTokens : {1}, OutputTokens : {2},
   TotalTokens : {0, 7}, CachedTokens : {1}, ReasoningTokens : {1}]

\* the request before the middleware has seen it
NewRequest ==
  [pc |-> "new", tracked |-> FALSE, requestID |-> Empty, method |-> "",
   start |-> ZeroTime, recordID |-> 0,
   apiKey |-> NoValue, isStreaming |-> NoValue, contentType |-> Empty,
   responseBodyForLog |-> NoValue, apiResponse |-> NoValue, errors |-> Empty,
   status |-> 200, wrote |-> FALSE,
   hist |-> << >>, raised |-> NoPanic, panicked |-> NoPanic,
   exitPatch |-> NoValue, event |-> NoValue, failed |-> FALSE,
   noStore |-> FALSE, nexts |-> 0]


(***************************************************************************)
(* Entry middleware: GinUsageRecordMiddleware up to c.Next().              *)
(***************************************************************************)
\* the request as the middleware captured it; the URL, body and headers
\* are the same for every request of the model
RequestURL == <<"/v1/chat/completions">>
RequestBody == <<"{", "model", "}">>
ClientIP == <<"10.0.0.1">>
RequestModel == <<"m1">>

\* rec := &Record{...} of the middleware: the pending record
PendingRecord(requestID, method, start) ==
  [ZeroRecord EXCEPT
     !.request_id = requestID, !.timestamp = start, !.ip = ClientIP,
     !.model = RequestModel, !.provider = <<"pending">>,
     !.is_streaming = FALSE, !.success = TRUE,
     !.request_url = RequestURL, !.request_method = method,
     !.request_headers = captureHeadersBestEffort(RequestHeader),
     !.request_body = RequestBody]

\* the middleware from its entry to c.Next(): the early returns, the
\* pending insert under its 2 s timeout, c.Set(ginUsageRecordIDKey)
SkipsMethodGetOnly(method) == method = "GET"

\* switch c.Request.Method { case http.MethodGet, http.MethodOptions: ... }
SkipsMethod(method) == method \in {"GET", "OPTIONS"}

\* hasStore: DefaultStore() returned a store
MiddlewareEntryWith(r, methods, stores) ==
  /\ req[r].pc = "new"
  /\ \E method \in methods, requestID \in RequestIDs, dbOK \in BOOLEAN,
        hasStore \in stores :
       IF ~hasStore \/ requestID = Empty \/ SkipsMethod(method)
       THEN /\ req' = [req EXCEPT ![r].pc = "handler", ![r].method = method,
                                  ![r].requestID = requestID,
                                  ![r].noStore = ~hasStore, ![r].nexts = @ + 1]
            /\ UNCHANGED <<rows, nextId>>
       ELSE IF closed \/ ~dbOK
       THEN /\ req' = [req EXCEPT ![r].pc = "handler", ![r].method = method,
                                  ![r].requestID = requestID,
                                  ![r].tracked = TRUE, ![r].start = TimeNow,
                                  ![r].hist = Append(@, "insert_failed"),
                                  ![r].nexts = @ + 1]
            /\ UNCHANGED <<rows, nextId>>
       ELSE /\ rows' = rows \cup {InsertedRow(PendingRecord(requestID, method, TimeNow))}
            /\ nextId' = nextId + 1
            /\ req' = [req EXCEPT ![r].pc = "handler", ![r].method = method,
                                  ![r].requestID = requestID,
                                  ![r].tracked = TRUE, ![r].start = TimeNow,
                                  ![r].recordID = nextId,
                                  ![r].hist = Append(@, "insert"),
                                  ![r].nexts = @ + 1]
  /\ UNCHANGED <<candidates, closed, queueVars, dropVars, now, producerVars,
                 ghostVars, eventVars, newVars>>

\* the requests of the lifecycle model reach a middleware that has a store
MiddlewareEntry(r) == MiddlewareEntryWith(r, Methods, {TRUE})

\* c.Request.Method, and whether a default store exists, for the entry alone
EntryMethods == {"POST", "GET", "OPTIONS"}

\* the downstream handler and its collaborators fill the gin context and
\* write the response status
HandlerWrites(r) ==
  /\ req[r].pc = "handler"
  /\ ~req[r].wrote
  /\ \E x \in Contexts :
       req' = [req EXCEPT ![r].wrote = TRUE, ![r].apiKey = x[1],
                          ![r].isStreaming = x[2][1], ![r].contentType = x[2][2],
                          ![r].responseBodyForLog = x[3][1],
                          ![r].apiResponse = x[3][2], ![r].errors = x[3][3],
                          ![r].status = x[4]]
  /\ UNCHANGED <<storeVars, queueVars, dropVars, now, producerVars, ghostVars,
                 eventVars, newVars>>


(***************************************************************************)
(* Usage-event plugin: Plugin.HandleUsage (plugin.go).                     *)
(***************************************************************************)
\* what HandleUsage extracts from the gin context of request r
GinView(r) ==
  [ip |-> ClientIP, requestURL |-> RequestURL, requestMethod |-> req[r].method,
   statusCode |-> req[r].status, requestID |-> req[r].requestID,
   recordDBID |-> req[r].recordID,
   isStreaming |-> IF req[r].isStreaming.type = "bool"
                   THEN req[r].isStreaming.val ELSE FALSE,
   durationMs |-> IF req[r].tracked THEN SinceMs(req[r].start) ELSE 0,
   requestHeaders |-> captureHeadersBestEffort(RequestHeader),
   responseHeaders |-> captureHeadersBestEffort(WriterHeader(req[r].contentType)),
   requestBody |-> Empty,
   responseBody |-> IF req[r].responseBodyForLog.type = "bytes"
                    THEN req[r].responseBodyForLog.val ELSE Empty]

\* ... and the same locals when ctx carries no gin context
NoGinView ==
  [ip |-> Empty, requestURL |-> Empty, requestMethod |-> Empty,
   statusCode |-> 0, requestID |-> Empty, recordDBID |-> 0,
   isStreaming |-> FALSE, durationMs |-> 0,
   requestHeaders |-> {}, responseHeaders |-> {},
   requestBody |-> Empty, responseBody |-> Empty]

\* durationMs after the RequestedAt fallback (inside the gin branch)
UsageDuration(g, ev) ==
  IF g.durationMs = 0 /\ ~IsZero(ev.RequestedAt) /\ g # NoGinView
  THEN SinceMs(ev.RequestedAt)
  ELSE g.durationMs

\* success := !record.Failed; if statusCode >= 400 { success = false }
UsageSuccess(g, ev) == ~ev.Failed /\ ~(g.statusCode >= StatusBadRequest)


\* totalTokens := record.Detail.InputTokens + record.Detail.OutputTokens
UsageTotal(ev) == ev.InputTokens + ev.OutputTokens

\* the RecordPatch HandleUsage builds when a pending record id is present
UsagePatch(g, ev) ==
  [api_key |-> ev.APIKey, api_key_masked |-> MaskAPIKey(ev.APIKey),
   model |-> ev.Model, provider |-> ev.Provider,
   is_streaming |-> g.isStreaming,
   input_tokens |-> ev.InputTokens, output_tokens |-> ev.OutputTokens,
   total_tokens |-> UsageTotal(ev),
   cached_tokens |-> ev.CachedTokens,
   reasoning_tokens |-> ev.ReasoningTokens]

\* the full Record HandleUsage builds for the one-phase fallback
UsageRecord(g, ev) ==
  [ZeroRecord EXCEPT
     !.request_id = g.requestID,
     !.timestamp = IF IsZero(ev.RequestedAt) THEN TimeNow ELSE ev.RequestedAt,
     !.ip = g.ip, !.api_key = ev.APIKey,
     !.api_key_masked = MaskAPIKey(ev.APIKey),
     !.model = ev.Model, !.provider = ev.Provider,
     !.is_streaming = g.isStreaming,
     !.input_tokens = ev.InputTokens, !.output_tokens = ev.OutputTokens,
     !.total_tokens = UsageTotal(ev),
     !.cached_tokens = ev.CachedTokens,
     !.reasoning_tokens = ev.ReasoningTokens,
     !.duration_ms = UsageDuration(g, ev), !.status_code = g.statusCode,
     !.success = UsageSuccess(g, ev),
     !.request_url = g.requestURL, !.request_method = g.requestMethod,
     !.request_headers = g.requestHeaders, !.request_body = g.requestBody,
     !.response_headers = g.responseHeaders, !.response_body = g.responseBody]

\* patched: a pending record id was found and PatchByID returned no error
UsagePatched(g, dbOK) ==
  g.recordDBID > 0 /\ ~PatchByIDFails(g.recordDBID, dbOK)

\* if !patched { ... p.store.EnqueueUsageRecord(rec) }
NeedsFallbackAlways(patched) == TRUE

NeedsFallback(patched) == ~patched

\* Plugin.SetEnabled
SetEnabled ==
  /\ \E b \in BOOLEAN : enabled' = b
  /\ UNCHANGED <<storeVars, queueVars, dropVars, now, producerVars, ghostVars,
                 lifeVars, storeCallVars, cacheVars, hookVars, snapVars, lateVars, installed,
                 tokenCalls, usageCalls, usageLog>>

\* the callbacks after installing (fn # nil) or removing (fn = nil) one
WithCallback(name, fn) ==
  IF fn THEN installed \cup {name} ELSE installed \ {name}

\* SetTokenIncrementor
SetTokenIncrementor ==
  /\ \E fn \in BOOLEAN : installed' = WithCallback("token", fn)
  /\ UNCHANGED <<storeVars, queueVars, dropVars, now, producerVars, ghostVars,
                 lifeVars, storeCallVars, cacheVars, hookVars, snapVars, lateVars, enabled,
                 tokenCalls, usageCalls, usageLog>>

\* SetUsageIncrementor
SetUsageIncrementor ==
  /\ \E fn \in BOOLEAN : installed' = WithCallback("usage", fn)
  /\ UNCHANGED <<storeVars, queueVars, dropVars, now, producerVars, ghostVars,
                 lifeVars, storeCallVars, cacheVars, hookVars, snapVars, lateVars, enabled,
                 tokenCalls, usageCalls, usageLog>>

\* if p.tokenIncrementor != nil && record.APIKey != "" {
\*   if inputTokens > 0 || outputTokens > 0 { p.tokenIncrementor(...) } }
TokenIncrementorCalledAnyKey(ev) ==
  "token" \in installed /\ (ev.InputTokens > 0 \/ ev.OutputTokens > 0)

TokenIncrementorCalled(ev) ==
  /\ "token" \in installed
  /\ ev.APIKey # Empty
  /\ (ev.InputTokens > 0 \/ ev.OutputTokens > 0)

\* if p.usageIncrementor != nil && record.APIKey != "" { p.usageIncrementor(...) }
UsageIncrementorCalled(ev) == "usage" \in installed /\ ev.APIKey # Empty

\* the callbacks HandleUsage invokes at its end
Incrementors(ev) ==
  /\ tokenCalls' = IF TokenIncrementorCalled(ev)
                   THEN Append(tokenCalls, <<ev.APIKey, ev.InputTokens, ev.OutputTokens>>)
                   ELSE tokenCalls
  /\ usageCalls' = IF UsageIncrementorCalled(ev)
                   THEN Append(usageCalls, <<ev.APIKey>>)
                   ELSE usageCalls

\* what one invocation of HandleUsage was given and what it did
UsageLogEntry(ev, g, patched) ==
  [enabled |-> enabled, installed |-> installed, key |-> ev.APIKey,
   input |-> ev.InputTokens, output |-> ev.OutputTokens,
   hadID |-> g.recordDBID > 0, patched |-> patched]

\* if !p.enabled.Load() { return }
HandleUsageDisabled(ev, g) ==
  /\ usageLog' = Append(usageLog, UsageLogEntry(ev, g, FALSE))
  /\ UNCHANGED <<rows, req, writeQueue, dropVars, calls, accepted,
                 acceptedBeforeStop, rejected, tokenCalls, usageCalls>>

\* HandleUsage with the gin context of request r, for an event of the set
\* events; the provider layer may deliver the event while the handler runs
\* or after the request ended
HandleUsageWith(r, events) ==
  /\ req[r].pc \in {"handler", "done"}
  /\ usageEvents < MaxEvents
  /\ usageEvents' = usageEvents + 1
  /\ \E ev \in events, dbOK \in BOOLEAN :
       LET g == GinView(r)
           patched == UsagePatched(g, dbOK)
       IN
       IF ~enabled THEN HandleUsageDisabled(ev, g) ELSE
       /\ IF patched
          THEN /\ rows' = PatchByIDRows(g.recordDBID, UsagePatch(g, ev))
               /\ req' = [req EXCEPT ![r].hist = Append(@, "usage_patch"),
                                     ![r].event = UsagePatch(g, ev),
                                     ![r].failed = @ \/ ev.Failed]
          ELSE /\ req' = [req EXCEPT ![r].hist = Append(@, "usage_enqueue"),
                                     ![r].failed = @ \/ ev.Failed]
               /\ UNCHANGED rows
       /\ IF NeedsFallback(patched)
          THEN EnqueueWhole(UsageTask(UsageRecord(g, ev)))
          ELSE UNCHANGED <<writeQueue, dropVars, calls, accepted,
                           acceptedBeforeStop, rejected>>
       /\ Incrementors(ev)
       /\ usageLog' = Append(usageLog, UsageLogEntry(ev, g, patched))
  /\ UNCHANGED <<nextId, candidates, closed, writeStop, writeDone, loopTask,
                 now, producerVars, attempted, insertLog, spawned,
                 storeCallVars, cacheVars, hookVars, snapVars, lateVars, enabled, installed>>

HandleUsage(r) == HandleUsageWith(r, UsageEvents)

\* HandleUsage for an invocation that did not come through gin
HandleUsageNoGinWith(events) ==
  /\ usageEvents < MaxEvents
  /\ usageEvents' = usageEvents + 1
  /\ \E ev \in events :
       IF ~enabled
       THEN HandleUsageDisabled(ev, NoGinView)
       ELSE /\ EnqueueWhole(UsageTask(UsageRecord(NoGinView, ev)))
            /\ Incrementors(ev)
            /\ usageLog' = Append(usageLog, UsageLogEntry(ev, NoGinView, FALSE))
            /\ UNCHANGED <<rows, req>>
  /\ UNCHANGED <<nextId, candidates, closed, writeStop, writeDone, loopTask, now,
                 producerVars, attempted, insertLog, spawned,
                 storeCallVars, cacheVars, hookVars, snapVars, lateVars, enabled, installed>>

HandleUsageNoGin == HandleUsageNoGinWith(UsageEvents)

\* usage events with and without an API key and with and without tokens
PluginEvents ==
  [APIKey : {Empty, <<"a", "b", "c">>}, Provider : {<<"openai">>}, Model : {<<"m1">>},
   RequestedAt : {ZeroTime}, Failed : {FALSE}, InputTokens : {0, 1},
   OutputTokens : {0, 2}, TotalTokens : {0}, CachedTokens : {1},
   ReasoningTokens : {1}]

(***************************************************************************)
(* The earlier revision of Plugin.HandleUsage kept in store.go: it builds  *)
(* the record and inserts it from a goroutine of its own.                  *)
(***************************************************************************)
\* TotalTokens: record.Detail.TotalTokens, and input + output when that is 0
LegacyTotal(ev) ==
  IF ev.TotalTokens = 0 THEN ev.InputTokens + ev.OutputTokens
  ELSE ev.TotalTokens

\* rec := &Record{...} of the earlier revision (no cached/reasoning tokens)
LegacyUsageRecord(g, ev) ==
  [UsageRecord(g, ev) EXCEPT !.total_tokens = LegacyTotal(ev),
                             !.cached_tokens = 0, !.reasoning_tokens = 0]

\* HandleUsage of the earlier revision, up to `go func() {...}()`
HandleUsageLegacy(r) ==
  /\ req[r].pc \in {"handler", "done"}
  /\ usageEvents < MaxEvents
  /\ usageEvents' = usageEvents + 1
  /\ \E ev \in UsageEvents :
       spawned' = Append(spawned, LegacyUsageRecord(GinView(r), ev))
  /\ UNCHANGED <<storeVars, queueVars, dropVars, now, producerVars, ghostVars,
                 req, newVars>>

\* the goroutine: p.store.Insert(insertCtx, rec) under its 5 s timeout
GoInsert ==
  /\ spawned # << >>
  /\ \E i \in 1..Len(spawned), dbOK \in BOOLEAN :
       /\ spawned' = SubSeq(spawned, 1, i - 1) \o SubSeq(spawned, i + 1, Len(spawned))
       /\ IF closed \/ ~dbOK
          THEN UNCHANGED <<rows, nextId>>
          ELSE /\ rows' = rows \cup {InsertedRow(spawned[i])}
               /\ nextId' = nextId + 1
  /\ UNCHANGED <<candidates, closed, queueVars, dropVars, now, producerVars,
                 ghostVars, req, usageEvents, newVars>>

(***************************************************************************)
(* Exit of the middleware: the deferred function, patchUsageRecordFinal    *)
(* and extractResponseBodyBestEffort.                                      *)
(***************************************************************************)
\* http.StatusText for the status codes of the model
StatusText(code) ==
  CASE code = 400 -> <<"Bad Request">>
    [] code = 404 -> <<"Not Found">>
    [] code = 500 -> <<"Internal Server Error">>
    [] code = 502 -> <<"Bad Gateway">>
    [] code = 101 -> <<"Switching Protocols">>
    [] code = 200 -> <<"OK">>
    [] OTHER -> Empty

SynthesizedBodyNoReason(code) == <<"HTTP", Space, ToString(code)>>

\* fmt.Sprintf("HTTP %d %s", status, text) / fmt.Sprintf("HTTP %d", status)
SynthesizedBody(code) ==
  IF TrimSpace(StatusText(code)) # Empty
  THEN <<"HTTP", Space, ToString(code), Space>> \o TrimSpace(StatusText(code))
  ELSE <<"HTTP", Space, ToString(code)>>


\* the status the exit path reports: c.Writer.Status(), 500 when recovered
FinalStatus(c, recovered) ==
  IF recovered THEN StatusInternalServerError ELSE c.status

\* extractResponseBodyBestEffort(c, recovered); c.panicked is the value
\* stored under ginUsageRecordPanicKey
extractResponseBodyBestEffort(c, recovered) ==
  IF /\ c.responseBodyForLog.type = "bytes"
     /\ Len(c.responseBodyForLog.val) > 0
  THEN c.responseBodyForLog.val
  ELSE IF /\ c.responseBodyForLog.type = "string"
          /\ TrimSpace(c.responseBodyForLog.val) # Empty
  THEN c.responseBodyForLog.val
  ELSE IF /\ c.apiResponse.type = "bytes"
          /\ Len(TrimSpace(c.apiResponse.val)) > 0
  THEN c.apiResponse.val
  ELSE IF recovered /\ c.panicked.panic /\ TrimSpace(c.panicked.msg) # Empty
  THEN TrimSpace(c.panicked.msg)
  ELSE IF TrimSpace(c.errors) # Empty
  THEN TrimSpace(c.errors)
  ELSE IF FinalStatus(c, recovered) >= StatusBadRequest
  THEN SynthesizedBody(FinalStatus(c, recovered))
  ELSE Empty

\* apiKey of patchUsageRecordFinal: c.Get("apiKey"), "" when not set
FinalAPIKey(c) == IF c.apiKey.type = "unset" THEN Empty ELSE c.apiKey.val

\* isStreaming of patchUsageRecordFinal: the context flag, else the
\* response Content-Type
FinalStreaming(c) ==
  \/ (c.isStreaming.type = "bool" /\ c.isStreaming.val)
  \/ Contains(ToLower(c.contentType), <<"text/event-stream">>)

\* success := statusCode > 0 && statusCode < http.StatusBadRequest
FinalSuccess(statusCode) == statusCode > 0 /\ statusCode < StatusBadRequest

\* the RecordPatch patchUsageRecordFinal hands to PatchByID
FinalPatch(c, recovered) ==
  [ip |-> ClientIP,
   api_key |-> FinalAPIKey(c),
   api_key_masked |-> IF TrimSpace(FinalAPIKey(c)) # Empty
                      THEN MaskAPIKey(FinalAPIKey(c)) ELSE Empty,
   is_streaming |-> FinalStreaming(c),
   duration_ms |-> SinceMs(c.start),
   status_code |-> FinalStatus(c, recovered),
   success |-> FinalSuccess(FinalStatus(c, recovered)),
   request_url |-> RequestURL,
   request_method |-> c.method,
   request_headers |-> captureHeadersBestEffort(RequestHeader),
   request_body |-> RequestBody,
   response_headers |-> captureHeadersBestEffort(WriterHeader(c.contentType)),
   response_body |-> extractResponseBodyBestEffort(c, recovered)]

\* the deferred function patches: if rec.ID > 0 { patchUsageRecordFinal }
ExitPatchIssuedAlways(c) == TRUE

ExitPatchIssued(c) == c.recordID > 0

\* what the deferred function re-raises: panic(recovered)
ReraisedNothing(recovered) == NoPanic

Reraised(recovered) == recovered

\* the handler ends, by returning or by panicking with value p, and the
\* middleware leaves: an untracked request just returns from c.Next(); a
\* tracked one runs the deferred function
MiddlewareExit(r) ==
  /\ req[r].pc = "handler"
  /\ \E p \in PanicValues \cup {NoPanic}, dbOK \in BOOLEAN :
       LET c == [req[r] EXCEPT !.panicked = p] IN
       IF ~req[r].tracked
       THEN /\ req' = [req EXCEPT ![r].pc = "done", ![r].raised = p]
            /\ UNCHANGED rows
       ELSE IF ~ExitPatchIssued(c)
       THEN /\ req' = [req EXCEPT ![r].pc = "done", ![r].panicked = p,
                                  ![r].raised = Reraised(p)]
            /\ UNCHANGED rows
       ELSE IF PatchByIDFails(c.recordID, dbOK)
       THEN /\ req' = [req EXCEPT ![r].pc = "done", ![r].panicked = p,
                                  ![r].raised = Reraised(p),
                                  ![r].hist = Append(@, "exit_patch_failed")]
            /\ UNCHANGED rows
       ELSE /\ rows' = PatchByIDRows(c.recordID, FinalPatch(c, p.panic))
            /\ req' = [req EXCEPT ![r].pc = "done", ![r].panicked = p,
                                  ![r].raised = Reraised(p),
                                  ![r].hist = Append(@, "exit_patch"),
                                  ![r].exitPatch = FinalPatch(c, p.panic)]
  /\ UNCHANGED <<nextId, candidates, closed, queueVars, dropVars, now,
                 producerVars, ghostVars, eventVars, newVars>>

(***************************************************************************)
(* The store operations called directly (management handlers, retention,   *)
(* tests): each call is one step, under the store mutex, and its outcome   *)
(* is kept in lastCall.                                                    *)
(***************************************************************************)
\* if s.closed { return ..., fmt.Errorf("store is closed") }
StoreClosedIgnored == FALSE

StoreClosed == closed

\* the fields of RecordPatch, by the column each one sets
PatchColumns ==
  {"timestamp", "ip", "api_key", "api_key_masked", "model", "provider",
   "is_streaming", "input_tokens", "output_tokens", "total_tokens",
   "cached_tokens", "reasoning_tokens", "duration_ms", "status_code",
   "success", "request_url", "request_method", "request_headers",
   "request_body", "response_headers", "response_body"}

\* a value for each field of a patch, different from the inserted one
PatchValue(col) ==
  CASE col = "timestamp" -> [sec |-> 2, off |-> 10]
    [] col \in {"is_streaming", "success"} -> TRUE
    [] col \in {"input_tokens", "output_tokens", "total_tokens", "cached_tokens",
                "reasoning_tokens", "duration_ms"} -> 9
    [] col = "status_code" -> 418
    [] col \in {"request_headers", "response_headers"} -> {<<<<"h">>, <<"v">>>>}
    [] OTHER -> <<"patched">>

\* the patches of the direct calls: empty, one field, every field
EmptyPatch == << >>
FullPatch == [col \in PatchColumns |-> PatchValue(col)]
Patches ==
  {EmptyPatch, FullPatch} \cup { (col :> PatchValue(col)) : col \in PatchColumns }
PatchIDs == {0, 1, 2}

\* the records and candidates of the direct calls
StoreTimes == [sec : {1, 11}, off : TZOffsets]
StoreRecords ==
  { [ZeroRecord EXCEPT !.request_id = <<"s">>, !.timestamp = t] : t \in StoreTimes }
StoreCandidates ==
  { [ZeroCandidate EXCEPT !.request_id = <<"s">>, !.timestamp = TimeNow] }
\* the ages given to DeleteOlderThan
Ages == {0, 1}

\* the read operations: each takes the read lock, checks s.closed, queries
ReadOps ==
  {"List", "GetByID", "GetActivityHeatmap", "GetModelStats", "GetDistinctOptions",
   "GetProviderStats", "GetUsageSummary", "GetUsageKPIs", "GetAPIKeyStats",
   "GetRequestTimeline", "GetIntervalTimeline", "GetRequestCandidates"}

\* the outcome of a call: the closed-store error, a database error, or nil
CallErr(dbOK) ==
  IF StoreClosed THEN "closed" ELSE IF dbOK THEN "none" ELSE "db"

Called(op, err) == [seq |-> lastCall.seq + 1, op |-> op, err |-> err]

StoreFrame ==
  UNCHANGED <<closed, queueVars, dropVars, now, producerVars, ghostVars, lifeVars,
              cacheVars, pluginVars, hookVars, snapVars, lateVars>>

\* Store.Insert of one of records, as call number seq
StoreInsertWith(records, seq) ==
  /\ \E record \in records, dbOK \in BOOLEAN :
       /\ lastCall' = [seq |-> seq, op |-> "Insert", err |-> CallErr(dbOK)]
       /\ IF CallErr(dbOK) = "none"
          THEN /\ rows' = rows \cup {InsertedRow(record)}
               /\ nextId' = nextId + 1
          ELSE UNCHANGED <<rows, nextId>>
  /\ UNCHANGED candidates
  /\ StoreFrame

StoreInsert ==
  /\ lastCall.seq < MaxStoreCalls
  /\ StoreInsertWith(StoreRecords, lastCall.seq + 1)

\* Store.InsertRequestCandidate
StoreInsertRequestCandidate ==
  /\ lastCall.seq < MaxStoreCalls
  /\ \E candidate \in StoreCandidates, dbOK \in BOOLEAN :
       /\ lastCall' = Called("InsertRequestCandidate", CallErr(dbOK))
       /\ IF CallErr(dbOK) = "none"
          THEN candidates' = Append(candidates, InsertedCandidate(candidate))
          ELSE UNCHANGED candidates
  /\ UNCHANGED <<rows, nextId>>
  /\ StoreFrame

\* Store.PatchByID: closed store, invalid id, no field set (0, nil), UPDATE
StorePatchByID ==
  /\ lastCall.seq < MaxStoreCalls
  /\ \E id \in PatchIDs, patch \in Patches, dbOK \in BOOLEAN :
       LET err == IF isClosed THEN "closed"
                  ELSE IF id <= 0 THEN "invalid id"
                  ELSE IF DOMAIN patch = {} THEN "none"
                  ELSE IF dbOK THEN "none" ELSE "db"
           executed == err = "none" /\ DOMAIN patch # {}
       IN
       /\ lastCall' = [Called("PatchByID", err) EXCEPT !.seq = lastCall.seq + 1]
                        @@ [id |-> id, patch |-> patch,
                            affected |-> IF executed
                                         THEN Cardinality({row \in rows : row.id = id})
                                         ELSE 0]
       /\ rows' = IF executed THEN PatchByIDRows(id, patch) ELSE rows
  /\ UNCHANGED <<nextId, candidates>>
  /\ StoreFrame

\* the rows DELETE FROM usage_records WHERE timestamp < cutoff removes
OlderThan(cutoff) == { row \in rows : TextLess(row.timestamp, cutoff) }

\* Store.DeleteOlderThan
StoreDeleteOlderThan ==
  /\ lastCall.seq < MaxStoreCalls
  /\ \E age \in Ages, dbOK \in BOOLEAN :
       LET cutoff == FormatRFC3339([sec |-> now - age, off |-> Local]) IN
       /\ lastCall' = Called("DeleteOlderThan", CallErr(dbOK))
                        @@ [age |-> age, at |-> now]
       /\ rows' = IF CallErr(dbOK) = "none" THEN rows \ OlderThan(cutoff) ELSE rows
  /\ UNCHANGED <<nextId, candidates>>
  /\ StoreFrame

\* List, GetByID and the aggregate queries
StoreQuery ==
  /\ lastCall.seq < MaxStoreCalls
  /\ \E op \in ReadOps, dbOK \in BOOLEAN :
       lastCall' = Called(op, CallErr(dbOK))
  /\ UNCHANGED <<rows, nextId, candidates>>
  /\ StoreFrame

\* Store.Close: nil when already closed, else closed = true and db.Close()
StoreClose ==
  /\ lastCall.seq < MaxStoreCalls
  /\ \E dbOK \in BOOLEAN :
       lastCall' = Called("Close", IF StoreClosed \/ dbOK THEN "none" ELSE "db")
  /\ closed' = TRUE
  /\ UNCHANGED <<rows, nextId, candidates, queueVars, dropVars, now, producerVars,
                 ghostVars, lifeVars, cacheVars, pluginVars, hookVars, snapVars, lateVars>>

\* EnqueueUsageRecord / EnqueueRequestCandidate called after one another
StoreEnqueue ==
  /\ lastCall.seq < MaxStoreCalls
  /\ \E task \in {UsageTask(record) : record \in StoreRecords}
                 \cup {CandidateTask(candidate) : candidate \in StoreCandidates} :
       /\ EnqueueWhole(task)
       /\ lastCall' = Called(IF task.kind = writeTaskInsertUsageRecord
                             THEN "EnqueueUsageRecord"
                             ELSE "EnqueueRequestCandidate", "none")
                        @@ [ok |-> (calls + 1) \in accepted']
  /\ UNCHANGED <<storeVars, writeStop, writeDone, loopTask, now, producerVars,
                 attempted, insertLog, lifeVars, cacheVars, pluginVars, hookVars, snapVars, lateVars>>

(***************************************************************************)
(* Query cache: queryCache.get and queryCache.clear. Reader goroutines     *)
(* call get(key, fn) where fn is an aggregate query of the database; the   *)
(* writer goroutine calls Insert and PatchByID. singleflight.Group.Do runs *)
(* fn for the first caller of a key and makes later callers wait for that  *)
(* call; the call leaves the group when fn has returned.                   *)
(***************************************************************************)
Keys == {"summary", "heatmap"}
Readers == 1..NumReaders
NoEntry == [expiresAt |-> 0, value |-> -1]
NoResult == [how |-> "none", value |-> -1, err |-> FALSE, issued |-> 0]
NoGet == [key |-> "", now |-> 0, call |-> 0, v |-> -1, how |-> "none", issued |-> 0,
          result |-> NoResult]
CacheFrame ==
  UNCHANGED <<queueVars, dropVars, now, producerVars, ghostVars, lifeVars,
              storeCallVars, pluginVars, hookVars, snapVars, lateVars>>
ReaderFrame == UNCHANGED <<storeVars, wpc, dbSeq, doneSeq, clearedSeq>> /\ CacheFrame

\* entry, ok := c.entries[key]; ok && now.Before(entry.expiresAt)
EntryValid(key, t) == entries[key] # NoEntry /\ t < entries[key].expiresAt

\* get returns: the value or the error, how it was obtained, and the locals die
Returned(g, how, value, err) ==
  [NoGet EXCEPT !.result = [how |-> how, value |-> value, err |-> err,
                            issued |-> glocal[g].issued]]

\* queryCache.clear
ClearedEntries == [k \in Keys |-> NoEntry]
\* Store.invalidateCaches: clears the entries map of the query cache
invalidateCaches == ClearedEntries
\* fn: an aggregate query; its value is determined by the writes the
\* database has executed when it runs
AggregateQuery == dbSeq

\* get: now := time.Now()
GetStart(g) ==
  /\ gpc[g] = "idle"
  /\ gets < MaxGets
  /\ gets' = gets + 1
  /\ \E key \in Keys :
       glocal' = [glocal EXCEPT ![g] = [NoGet EXCEPT !.key = key, !.now = now,
                                                     !.issued = doneSeq]]
  /\ gpc' = [gpc EXCEPT ![g] = "check"]
  /\ UNCHANGED <<entries, sfMap>>
  /\ ReaderFrame

\* get: the first look at the entries, under c.mu
GetCheck(g) ==
  /\ gpc[g] = "check"
  /\ IF EntryValid(glocal[g].key, glocal[g].now)
     THEN /\ gpc' = [gpc EXCEPT ![g] = "idle"]
          /\ glocal' = [glocal EXCEPT ![g] =
                          Returned(g, "hit", entries[glocal[g].key].value, FALSE)]
     ELSE /\ gpc' = [gpc EXCEPT ![g] = "do"]
          /\ UNCHANGED glocal
  /\ UNCHANGED <<entries, sfMap, gets>>
  /\ ReaderFrame

\* singleflight.Do: a call for the key is in flight
JoinsFlightNever(key) == FALSE

JoinsFlight(key) == sfMap[key] # 0

\* c.sf.Do(key, ...): wait for the call in flight, or become the call
GetDo(g) ==
  /\ gpc[g] = "do"
  /\ IF JoinsFlight(glocal[g].key)
     THEN /\ gpc' = [gpc EXCEPT ![g] = "wait"]
          /\ glocal' = [glocal EXCEPT ![g].call = sfMap[glocal[g].key]]
          /\ UNCHANGED sfMap
     ELSE /\ gpc' = [gpc EXCEPT ![g] = "recheck"]
          /\ sfMap' = [sfMap EXCEPT ![glocal[g].key] = g]
          /\ glocal' = [glocal EXCEPT ![g].call = g]
  /\ UNCHANGED <<entries, gets>>
  /\ ReaderFrame

\* inside Do: now := time.Now() and the second look at the entries
GetRecheck(g) ==
  /\ gpc[g] = "recheck"
  /\ IF EntryValid(glocal[g].key, now)
     THEN /\ gpc' = [gpc EXCEPT ![g] = "finish"]
          /\ glocal' = [glocal EXCEPT ![g].v = entries[glocal[g].key].value,
                                      ![g].how = "hit"]
     ELSE /\ gpc' = [gpc EXCEPT ![g] = "fn"]
          /\ UNCHANGED glocal
  /\ UNCHANGED <<entries, sfMap, gets>>
  /\ ReaderFrame

\* inside Do: v, err := fn(); the query reads the database as it is now
GetFn(g) ==
  /\ gpc[g] = "fn"
  /\ \E dbOK \in BOOLEAN :
       IF dbOK
       THEN /\ gpc' = [gpc EXCEPT ![g] = "store"]
            /\ glocal' = [glocal EXCEPT ![g].v = AggregateQuery, ![g].how = "ran"]
       ELSE /\ gpc' = [gpc EXCEPT ![g] = "finish"]
            /\ glocal' = [glocal EXCEPT ![g].v = -1, ![g].how = "failed"]
  /\ UNCHANGED <<entries, sfMap, gets>>
  /\ ReaderFrame

\* the entry get stores after fn succeeded
StoredEntry(v) == [expiresAt |-> now + CacheTTL, value |-> v]

\* inside Do: c.entries[key] = cacheEntry{time.Now().Add(c.ttl), v}
GetStore(g) ==
  /\ gpc[g] = "store"
  /\ entries' = [entries EXCEPT ![glocal[g].key] = StoredEntry(glocal[g].v)]
  /\ gpc' = [gpc EXCEPT ![g] = "finish"]
  /\ UNCHANGED <<glocal, sfMap, gets>>
  /\ ReaderFrame

\* the callers waiting for the call that reader g runs
Waiters(g) == { h \in Readers : gpc[h] = "wait" /\ glocal[h].call = g }

\* Do returns: the call leaves the group, its waiters are handed its result,
\* and get returns
GetFinish(g) ==
  /\ gpc[g] = "finish"
  /\ glocal' = [h \in Readers |->
                 IF h = g
                 THEN Returned(g, glocal[g].how, glocal[g].v, glocal[g].how = "failed")
                 ELSE IF h \in Waiters(g)
                 THEN [glocal[h] EXCEPT !.v = glocal[g].v,
                                        !.how = IF glocal[g].how = "failed"
                                                THEN "failed" ELSE "joined"]
                 ELSE glocal[h]]
  /\ gpc' = [h \in Readers |->
              IF h = g THEN "idle" ELSE IF h \in Waiters(g) THEN "woken" ELSE gpc[h]]
  /\ sfMap' = [sfMap EXCEPT ![glocal[g].key] = 0]
  /\ UNCHANGED <<entries, gets>>
  /\ ReaderFrame

\* Do returns to a caller that waited for the call in flight
GetWait(g) ==
  /\ gpc[g] = "woken"
  /\ glocal' = [glocal EXCEPT ![g] =
                  Returned(g, "joined", glocal[g].v, glocal[g].how = "failed")]
  /\ gpc' = [gpc EXCEPT ![g] = "idle"]
  /\ UNCHANGED <<entries, sfMap, gets>>
  /\ ReaderFrame

\* the record and the patch the writer writes
WriterRecord == [ZeroRecord EXCEPT !.request_id = <<"s">>, !.timestamp = TimeNow]
WriterPatch == "status_code" :> 200

\* Store.Insert by the writer: the row is inserted and Insert returns
WriterInsert ==
  /\ wpc = "idle"
  /\ dbSeq < MaxWrites
  /\ rows' = rows \cup {InsertedRow(WriterRecord)}
  /\ nextId' = nextId + 1
  /\ dbSeq' = dbSeq + 1
  /\ doneSeq' = dbSeq + 1
  /\ UNCHANGED clearedSeq
  /\ UNCHANGED <<candidates, closed, wpc, entries, sfMap, gpc, glocal, gets>>
  /\ CacheFrame

\* Store.PatchByID by the writer, up to s.db.ExecContext
WriterPatchExec ==
  /\ wpc = "idle"
  /\ dbSeq < MaxWrites
  /\ rows' = PatchByIDRows(1, WriterPatch)
  /\ dbSeq' = IF rows' # rows THEN dbSeq + 1 ELSE dbSeq
  /\ wpc' = "invalidate"
  /\ UNCHANGED <<nextId, candidates, closed, doneSeq, clearedSeq, entries, sfMap, gpc,
                 glocal, gets>>
  /\ CacheFrame

\* Store.PatchByID: s.invalidateCaches() and return
WriterPatchInvalidate ==
  /\ wpc = "invalidate"
  /\ entries' = invalidateCaches
  /\ doneSeq' = dbSeq
  /\ clearedSeq' = dbSeq
  /\ wpc' = "idle"
  /\ UNCHANGED <<storeVars, dbSeq, sfMap, gpc, glocal, gets>>
  /\ CacheFrame

(***************************************************************************)
(* Candidate hook: CandidateHook.OnCandidate. The hook builds the record   *)
(* and inserts it from a goroutine of its own.                             *)
(***************************************************************************)
\* cliproxyauth.Candidate: the events the retry engine delivers
HookCandidates ==
  [RequestID : {Empty, <<Space>>, <<Space, "r1", Space>>},
   Provider : {<<"openai">>},
   AuthID : {Empty, <<Space>>, <<"a1">>},
   AuthFile : {Empty, <<Space>>, <<"f1">>},
   Status : {<<"skipped">>, <<"bogus">>},
   StatusCode : {0}, Success : BOOLEAN, DurationMs : {5},
   ErrorMessage : {Empty}, CandidateIndex : {0}, RetryIndex : {0}]

\* authFile := TrimSpace(candidate.AuthFile); if authFile == "" { authFile = authID }
HookAuthFile(c) ==
  IF TrimSpace(c.AuthFile) = Empty THEN TrimSpace(c.AuthID) ELSE TrimSpace(c.AuthFile)

\* the two early returns of OnCandidate
HookDiscardsUntrimmed(c) ==
  \/ c.RequestID = Empty
  \/ (c.AuthID = Empty /\ c.AuthFile = Empty)

HookDiscards(c) ==
  \/ TrimSpace(c.RequestID) = Empty
  \/ (TrimSpace(c.AuthID) = Empty /\ HookAuthFile(c) = Empty)

\* status: one of the four allowed values, else from candidate.Success
HookStatus(c) ==
  IF TrimSpace(c.Status) \in {<<"pending">>, <<"success">>, <<"failed">>, <<"skipped">>}
  THEN TrimSpace(c.Status)
  ELSE IF c.Success THEN <<"success">> ELSE <<"failed">>

\* if statusCode == 0 && status == "success" { statusCode = 200 }
HookStatusCode(c) ==
  IF c.StatusCode = 0 /\ HookStatus(c) = <<"success">> THEN 200 ELSE c.StatusCode

\* record := &RequestCandidate{...}
HookRecord(c) ==
  [request_id |-> TrimSpace(c.RequestID), timestamp |-> TimeNow,
   provider |-> TrimSpace(c.Provider), api_key |-> TrimSpace(c.AuthID),
   api_key_masked |-> HookAuthFile(c), status |-> HookStatus(c),
   status_code |-> HookStatusCode(c), success |-> c.Success,
   duration_ms |-> c.DurationMs, error_message |-> TrimSpace(c.ErrorMessage),
   candidate_index |-> c.CandidateIndex, retry_index |-> c.RetryIndex]

HookFrame ==
  UNCHANGED <<rows, nextId, closed, queueVars, dropVars, now, producerVars,
              ghostVars, lifeVars, storeCallVars, cacheVars, pluginVars, snapVars, lateVars>>

\* OnCandidate, up to `go func() {...}()`, for an event of the set events
OnCandidateWith(events, max) ==
  /\ Len(hookLog) < max
  /\ \E c \in events :
       /\ hookLog' = Append(hookLog, c)
       /\ goCandidates' = IF HookDiscards(c) THEN goCandidates
                          ELSE Append(goCandidates, HookRecord(c))
  /\ UNCHANGED candidates
  /\ HookFrame

OnCandidate == OnCandidateWith(HookCandidates, MaxHookEvents)

\* the goroutine: store.InsertRequestCandidate(insertCtx, record)
GoInsertRequestCandidate ==
  /\ goCandidates # << >>
  /\ \E i \in 1..Len(goCandidates), dbOK \in BOOLEAN :
       /\ goCandidates' = SubSeq(goCandidates, 1, i - 1)
                            \o SubSeq(goCandidates, i + 1, Len(goCandidates))
       /\ IF closed \/ ~dbOK
          THEN UNCHANGED candidates
          ELSE candidates' = Append(candidates, InsertedCandidate(goCandidates[i]))
  /\ UNCHANGED hookLog
  /\ HookFrame

(***************************************************************************)
(* Request traces: the attempts of one request arrive through the hook or  *)
(* through RecordCandidate and are read back by GetRequestCandidates.      *)
(***************************************************************************)
\* the attempts the retry engine reports for two requests
TraceCandidates ==
  { c \in [RequestID : {<<"r1">>, <<"r2">>}, Provider : {<<"openai">>},
           AuthID : {<<"a1">>}, AuthFile : {Empty}, Status : {<<"bogus">>},
           StatusCode : {0}, Success : {TRUE}, DurationMs : {5},
           ErrorMessage : {Empty}, CandidateIndex : {0, 1}, RetryIndex : {0, 1}] :
      /\ c.CandidateIndex + c.RetryIndex <= 1
      /\ c.RequestID = <<"r2">> => c.CandidateIndex = 1 }

\* candidate := &RequestCandidate{...} of RecordCandidate
RecordedCandidate(requestID, apiKey, status, success) ==
  [ZeroCandidate EXCEPT !.request_id = requestID, !.timestamp = TimeNow,
                        !.provider = <<"openai">>, !.api_key = apiKey,
                        !.api_key_masked = MaskAPIKey(apiKey),
                        !.status = status, !.success = success]

\* RecordCandidate: nothing when the plugin is disabled, else the candidate
\* goes to the write queue as given (no callback is installed)
RecordCandidate ==
  /\ calls < MaxRecordCalls
  /\ enabled
  /\ \E status \in {<<"skipped">>, <<"bogus">>} :
       EnqueueWhole(CandidateTask(
         RecordedCandidate(<<"r1">>, <<"a", "b", "c">>, status, FALSE)))
  /\ UNCHANGED <<storeVars, writeStop, writeDone, loopTask, now, producerVars,
                 attempted, insertLog, lifeVars, newVars>>

\* ORDER BY candidate_index ASC, retry_index ASC
CandidateBefore(a, b) ==
  \/ a.candidate_index < b.candidate_index
  \/ (a.candidate_index = b.candidate_index /\ a.retry_index < b.retry_index)

\* the rows in the order of the ORDER BY clause; rows with equal keys stay in
\* rowid order
RECURSIVE OrderedCandidates(_)
InRowidOrder(cs) == cs

OrderedCandidates(cs) ==
  IF cs = << >> THEN << >>
  ELSE LET first == CHOOSE i \in 1..Len(cs) :
                      \A j \in 1..Len(cs) :
                        /\ ~CandidateBefore(cs[j], cs[i])
                        /\ (j < i => CandidateBefore(cs[j], cs[i]) \/ CandidateBefore(cs[i], cs[j]))
       IN <<cs[first]>> \o OrderedCandidates(
            SubSeq(cs, 1, first - 1) \o SubSeq(cs, first + 1, Len(cs)))

\* WHERE request_id = ?
CandidatesOf(requestID) ==
  SelectSeq(candidates, LAMBDA c : c.request_id = requestID)

\* Store.GetRequestCandidates
GetRequestCandidates ==
  /\ \E requestID \in {<<"r1">>, <<"r2">>}, dbOK \in BOOLEAN :
       lastCall' = [seq |-> 1, op |-> "GetRequestCandidates", err |-> CallErr(dbOK),
                    arg |-> requestID,
                    result |-> IF CallErr(dbOK) = "none"
                               THEN OrderedCandidates(CandidatesOf(requestID))
                               ELSE << >>]
  /\ UNCHANGED <<rows, nextId, candidates>>
  /\ StoreFrame

(***************************************************************************)
(* Statistics snapshot: saveSnapshotFile. A file is NoFile or a record of  *)
(* the snapshot it holds and whether all of its bytes were written. Every  *)
(* file-system call can fail; the function runs alone.                     *)
(***************************************************************************)
NoFile == [ver |-> 0, complete |-> FALSE]
NoSave == [ver |-> 0, before |-> NoFile, tmp |-> NoFile, hasTmp |-> FALSE,
           returned |-> FALSE, err |-> FALSE]
SnapFrame ==
  UNCHANGED <<storeVars, queueVars, dropVars, now, producerVars, ghostVars, lifeVars,
              storeCallVars, cacheVars, pluginVars, hookVars, lateVars>>

\* return err / return nil
SaveReturns(call, err) == [call EXCEPT !.returned = TRUE, !.err = err]

\* cleanup(): tmp.Close() and os.Remove(tmpPath), both errors ignored
CleanupLeaves(removed) == IF removed THEN 0 ELSE 1

\* MkdirAll, json.Marshal, os.CreateTemp
SaveBegin ==
  /\ snapPc = "idle"
  /\ snapCall.ver < MaxSaves
  /\ \E dirOK \in BOOLEAN, tmpOK \in BOOLEAN :
       LET call == [NoSave EXCEPT !.ver = snapCall.ver + 1, !.before = snapFile] IN
       IF dirOK /\ tmpOK
       THEN /\ snapCall' = [call EXCEPT !.hasTmp = TRUE]
            /\ snapPc' = "write"
       ELSE /\ snapCall' = SaveReturns(call, TRUE)
            /\ snapPc' = "idle"
  /\ UNCHANGED <<snapFile, tmpLeft>>
  /\ SnapFrame

\* tmp.Write(data), tmp.Close(), os.Chmod(tmpPath, 0o600)
SaveWriteTemp ==
  /\ snapPc = "write"
  /\ \E written \in {"all", "short", "error"}, closeOK \in BOOLEAN, removed \in BOOLEAN :
       IF written = "all" /\ closeOK
       THEN /\ snapCall' = [snapCall EXCEPT !.tmp = [ver |-> snapCall.ver,
                                                     complete |-> TRUE]]
            /\ snapPc' = "rename"
            /\ UNCHANGED tmpLeft
       ELSE /\ snapCall' = SaveReturns([snapCall EXCEPT !.hasTmp = FALSE], TRUE)
            /\ tmpLeft' = tmpLeft + CleanupLeaves(removed)
            /\ snapPc' = "idle"
  /\ UNCHANGED snapFile
  /\ SnapFrame

\* os.Rename(tmpPath, path)
SaveRename ==
  /\ snapPc = "rename"
  /\ \E renamed \in BOOLEAN :
       IF renamed
       THEN /\ snapFile' = snapCall.tmp
            /\ snapCall' = SaveReturns([snapCall EXCEPT !.hasTmp = FALSE], FALSE)
            /\ snapPc' = "idle"
       ELSE /\ snapPc' = "replace"
            /\ UNCHANGED <<snapFile, snapCall>>
  /\ UNCHANGED tmpLeft
  /\ SnapFrame

\* the fallback: os.Remove(path), then os.Rename(tmpPath, path) again
SaveReplace ==
  /\ snapPc = "replace"
  /\ \E oldRemoved \in BOOLEAN, renamed \in BOOLEAN, removed \in BOOLEAN :
       LET afterRemove == IF oldRemoved THEN NoFile ELSE snapFile IN
       IF renamed
       THEN /\ snapFile' = snapCall.tmp
            /\ snapCall' = SaveReturns([snapCall EXCEPT !.hasTmp = FALSE], FALSE)
            /\ UNCHANGED tmpLeft
       ELSE /\ snapFile' = afterRemove
            /\ snapCall' = SaveReturns([snapCall EXCEPT !.hasTmp = FALSE], TRUE)
            /\ tmpLeft' = tmpLeft + CleanupLeaves(removed)
  /\ snapPc' = "idle"
  /\ SnapFrame

(***************************************************************************)
(* Initial state and specifications.                                       *)
(***************************************************************************)
\* the store after NewStore and startWriteQueue, before any request
(***************************************************************************)
(* The retention cleaner, the snapshot persistence loop, the default store *)
(* and the store mutex: initial values.                                    *)
(***************************************************************************)
NumStoppers == 2
MaxUpdates == 2
MaxCycles == 2
MaxRetentionRows == 2
MaxStatsRecords == 3
NumDefaultCallers == 2
MaxDefaultCalls == 4
DefaultCallers == 1..NumDefaultCallers
NumPatchCallers == 2
MaxPatchCalls == 3
PatchCallers == 1..NumPatchCallers
Stoppers == 1..NumStoppers

\* defaultRetentionBatchSize, defaultRetentionPause and
\* defaultRetentionMaxRuntime (milliseconds)
defaultRetentionBatchSize == 1000
defaultRetentionPause == 200
defaultRetentionMaxRuntime == 15000

\* NewRetentionCleaner(store, 1): both channels open, nothing started.  pc is
\* the position of loop(); spc the position of each caller of Stop; days,
\* cutoff, elapsed and totalDeleted are the locals of runOnce, lastBatch the
\* rows its last batch deleted; previous is what UpdateRetentionDays returned
NewRetentionCleaner ==
  [retentionDays |-> 1, started |-> FALSE, startOnce |-> FALSE, stopOnce |-> FALSE,
   stop |-> FALSE, done |-> FALSE, panicked |-> FALSE,
   batchSize |-> defaultRetentionBatchSize, pause |-> defaultRetentionPause,
   maxRuntime |-> defaultRetentionMaxRuntime,
   pc |-> "none", spc |-> [s \in Stoppers |-> "idle"], loc |-> 0,
   days |-> 0, cutoff |-> << >>, elapsed |-> 0, totalDeleted |-> 0,
   lastBatch |-> {}, exit |-> "none", cycles |-> 0, updates |-> 0, previous |-> 0]

\* a RequestStatistics before StartSnapshotPersistence: nothing recorded, the
\* flag clear, no file.  data counts the records made, snap is the count in
\* the snapshot being saved, file the count in the file (0 = no file or an
\* empty one), covered the highest count a write attempt has carried; rpc is
\* the position of the Record call in progress
NoPersistence ==
  [pc |-> "none", dirty |-> FALSE, data |-> 0, rpc |-> "idle", snap |-> 0,
   file |-> 0, covered |-> 0, failed |-> FALSE]
\* defaultStore = nil, defaultStoreMu free, no caller inside.  ptr is the
\* singleton (0 = nil, else the number of the Store), mu the caller holding
\* defaultStoreMu (0 = free), made the Stores NewStore has created, open the
\* ones not yet closed, closes the Close calls each Store has received, ret
\* what each caller's last call returned, calls the calls started
NoDefaultStore ==
  [ptr |-> 0, mu |-> 0, made |-> 0, open |-> {},
   closes |-> [id \in 1..MaxDefaultCalls |-> 0],
   pc |-> [c \in DefaultCallers |-> "idle"],
   ret |-> [c \in DefaultCallers |-> "none"], calls |-> 0]
\* an open Store with no call in progress.  closed is Store.closed, dbClosed
\* the sql.DB after db.Close(), mu the holder of Store.mu (0 = free),
\* closeReturned whether Close has returned, pc the position of each
\* PatchByID caller, cpc the position of the Close caller, updates the
\* UPDATE statements the database has executed, ret what each PatchByID
\* returned, calls the PatchByID calls started
NoPatcher ==
  [closed |-> FALSE, dbClosed |-> FALSE, mu |-> 0, closeReturned |-> FALSE,
   pc |-> [c \in PatchCallers |-> "idle"], cpc |-> "idle", updates |-> 0,
   ret |-> [c \in PatchCallers |-> "none"], calls |-> 0]

Init ==
  /\ rows = {}
  /\ nextId = 1
  /\ candidates = << >>
  /\ closed = FALSE
  /\ writeQueue = << >>
  /\ writeStop = FALSE
  /\ writeDone = FALSE
  /\ loopTask = NoTask
  /\ writeDropLogAt = 0
  /\ now = 1
  /\ dropLogs = << >>
  /\ ppc = [p \in Producers |-> "idle"]
  /\ plocal = [p \in Producers |-> [task |-> NoTask, now |-> 0, last |-> 0]]
  /\ calls = 0
  /\ accepted = {}
  /\ acceptedBeforeStop = {}
  /\ rejected = {}
  /\ attempted = << >>
  /\ insertLog = << >>
  /\ req = [r \in Requests |-> NewRequest]
  /\ usageEvents = 0
  /\ spawned = << >>
  /\ lastCall = NoCall
  /\ entries = [k \in Keys |-> NoEntry]
  /\ sfMap = [k \in Keys |-> 0]
  /\ gpc = [g \in Readers |-> "idle"]
  /\ glocal = [g \in Readers |-> NoGet]
  /\ wpc = "idle"
  /\ dbSeq = 0
  /\ doneSeq = 0
  /\ clearedSeq = 0
  /\ gets = 0
  /\ enabled = TRUE
  /\ installed = {}
  /\ tokenCalls = << >>
  /\ usageCalls = << >>
  /\ usageLog = << >>
  /\ goCandidates = << >>
  /\ hookLog = << >>
  /\ snapFile = NoFile
  /\ tmpLeft = 0
  /\ snapPc = "idle"
  /\ snapCall = NoSave
  /\ cleaner = NewRetentionCleaner
  /\ persist = NoPersistence
  /\ defaultStore = NoDefaultStore
  /\ patcher = NoPatcher

\* the request path: middleware, handler, usage events, and the drain task
Next ==
  \/ \E r \in Requests : MiddlewareEntry(r)
  \/ \E r \in Requests : HandlerWrites(r)
  \/ \E r \in Requests : HandleUsage(r)
  \/ HandleUsageNoGin
  \/ \E r \in Requests : MiddlewareExit(r)
  \/ writeLoopReceive
  \/ writeLoopProcess
  \/ Tick

Spec == Init /\ [][Next]_vars

\* the write queue under concurrent producers, stop and Close
NextQueue ==
  \/ \E p \in Producers : EnqueueUsageRecord(p)
  \/ \E p \in Producers : EnqueueRequestCandidate(p)
  \/ \E p \in Producers : EnqueueSend(p)
  \/ \E p \in Producers : logWriteDropLoad(p)
  \/ \E p \in Producers : logWriteDropStore(p)
  \/ writeLoopReceive
  \/ writeLoopProcess
  \/ writeLoopStop
  \/ stopWriteQueue
  \/ Close
  \/ Tick

SpecQueue == Init /\ [][NextQueue]_vars

\* the same with the drain goroutine scheduled: a select with a ready case
\* is taken, and a write returns, at the latest when its 5 s timeout expires
SpecQueueFair ==
  SpecQueue /\ WF_vars(writeLoopReceive) /\ WF_vars(writeLoopProcess)


\* the earlier revision of the plugin: no pending record, direct inserts
NextLegacy ==
  \/ \E r \in Requests : MiddlewareEntry(r)
  \/ \E r \in Requests : HandlerWrites(r)
  \/ \E r \in Requests : HandleUsageLegacy(r)
  \/ \E r \in Requests : MiddlewareExit(r)
  \/ GoInsert
  \/ Tick

SpecLegacy == Init /\ [][NextLegacy]_vars

\* the store operations called directly, in any order
NextStore ==
  \/ StoreInsert
  \/ StoreInsertRequestCandidate
  \/ StorePatchByID
  \/ StoreDeleteOlderThan
  \/ StoreQuery
  \/ StoreClose
  \/ StoreEnqueue
  \/ Tick

SpecStore == Init /\ [][NextStore]_vars

\* readers of the query cache against a writer
NextCache ==
  \/ \E g \in Readers : GetStart(g)
  \/ \E g \in Readers : GetCheck(g)
  \/ \E g \in Readers : GetDo(g)
  \/ \E g \in Readers : GetRecheck(g)
  \/ \E g \in Readers : GetFn(g)
  \/ \E g \in Readers : GetStore(g)
  \/ \E g \in Readers : GetFinish(g)
  \/ \E g \in Readers : GetWait(g)
  \/ WriterInsert
  \/ WriterPatchExec
  \/ WriterPatchInvalidate
  \/ Tick

SpecCache == Init /\ [][NextCache]_vars

\* the plugin: its switches, usage events with and without a pending
\* record, and the store closing underneath it
NextPlugin ==
  \/ \E r \in Requests : MiddlewareEntry(r)
  \/ \E r \in Requests : HandleUsageWith(r, PluginEvents)
  \/ HandleUsageNoGinWith(PluginEvents)
  \/ SetEnabled
  \/ SetTokenIncrementor
  \/ SetUsageIncrementor
  \/ Close
  \/ writeLoopReceive
  \/ writeLoopProcess

SpecPlugin == Init /\ [][NextPlugin]_vars

\* the candidate hook, its goroutines and the store closing underneath
NextHook ==
  \/ OnCandidate
  \/ GoInsertRequestCandidate
  \/ Close
  \/ Tick

SpecHook == Init /\ [][NextHook]_vars

\* request traces: both ways of recording a candidate, and the read
NextTrace ==
  \/ OnCandidateWith(TraceCandidates, MaxTraceEvents)
  \/ GoInsertRequestCandidate
  \/ RecordCandidate
  \/ writeLoopReceive
  \/ writeLoopProcess
  \/ GetRequestCandidates

SpecTrace == Init /\ [][NextTrace]_vars

\* the periodic snapshot writer
NextSnapshot ==
  \/ SaveBegin
  \/ SaveWriteTemp
  \/ SaveRename
  \/ SaveReplace

SpecSnapshot == Init /\ [][NextSnapshot]_vars

\* the middleware alone, over every method and with or without a default
\* store
NextEntry ==
  \/ \E r \in Requests : MiddlewareEntryWith(r, EntryMethods, BOOLEAN)
  \/ \E r \in Requests : HandlerWrites(r)
  \/ \E r \in Requests : MiddlewareExit(r)

SpecEntry == Init /\ [][NextEntry]_vars

(***************************************************************************)
(* Store.List (store.go): the WHERE clause, ORDER BY, LIMIT and OFFSET     *)
(* over the rows of usage_records.                                         *)
(***************************************************************************)
DefaultPageSize == 20
MaxPageSize == 100

\* the records the list model inserts: two kinds that differ in every sort
\* column, so that inserting one twice makes a tie
ListRecords ==
  { [ZeroRecord EXCEPT !.request_id = <<"s">>, !.timestamp = [sec |-> 1, off |-> 0],
                       !.api_key = <<"a", "b">>, !.model = <<"m", "1">>,
                       !.provider = <<"p", "2">>, !.total_tokens = 2,
                       !.duration_ms = 1, !.status_code = 200],
    [ZeroRecord EXCEPT !.request_id = <<"s">>, !.timestamp = [sec |-> 11, off |-> 0],
                       !.api_key = <<"c">>, !.model = <<"m", "2">>,
                       !.provider = <<"p", "1">>, !.total_tokens = 1,
                       !.duration_ms = 2, !.status_code = 500] }

\* the whitelist of sort columns
SortColumns ==
  {"timestamp", "model", "provider", "total_tokens", "duration_ms", "status_code"}

\* ListQuery: Page, PageSize, SortBy, SortOrder and the APIKey filter
ListQueries ==
  [Page : {0, 1, 2, 3}, PageSize : {0, 1, 2, 101},
   SortBy : SortColumns \cup {"", "id"}, SortOrder : {"asc", "DESC"},
   APIKey : {Empty, <<"A">>}]

\* if query.Page < 1 { query.Page = 1 }
ListPage(query) == IF query.Page < 1 THEN 1 ELSE query.Page

ListPageSizeUncapped(query) ==
  IF query.PageSize < 1 THEN DefaultPageSize ELSE query.PageSize

\* if query.PageSize < 1 { = 20 }; if query.PageSize > 100 { = 100 }
ListPageSize(query) ==
  IF query.PageSize < 1 THEN DefaultPageSize
  ELSE IF query.PageSize > MaxPageSize THEN MaxPageSize
  ELSE query.PageSize

\* api_key LIKE '%' || query.APIKey || '%' (LIKE ignores the case of ASCII
\* letters)
ListMatches(query, row) ==
  query.APIKey = Empty \/ Contains(ToLower(row.api_key), ToLower(query.APIKey))

\* the rows the WHERE clause selects
ListFiltered(query) == { row \in rows : ListMatches(query, row) }

\* sortBy: the column asked for when it is on the whitelist, else timestamp
ListSortBy(query) ==
  IF query.SortBy \in SortColumns THEN query.SortBy ELSE "timestamp"

\* strings.ToUpper(query.SortOrder) == "ASC"
ListAscending(query) == query.SortOrder \in {"asc", "ASC", "Asc"}

\* a sorts before b on column col: integers by value, TEXT bytewise
ColumnLess(col, a, b) ==
  IF col \in {"total_tokens", "duration_ms", "status_code"}
  THEN a[col] < b[col]
  ELSE TextLess(a[col], b[col])

\* a comes before b under ORDER BY sortBy sortOrder; rows that tie on the
\* column come in the order of the scan, the same for every page of an
\* unmodified table
ListBefore(query, a, b) ==
  LET col == ListSortBy(query) IN
  IF ColumnLess(col, a, b) THEN ListAscending(query)
  ELSE IF ColumnLess(col, b, a) THEN ~ListAscending(query)
  ELSE a.id < b.id

\* the rows of set in the order of the SELECT
RECURSIVE ListOrdered(_, _)
ListOrdered(query, set) ==
  IF set = {} THEN << >>
  ELSE LET first == CHOOSE a \in set :
                      \A b \in set \ {a} : ListBefore(query, a, b)
       IN <<first>> \o ListOrdered(query, set \ {first})

\* LIMIT query.PageSize OFFSET (query.Page - 1) * query.PageSize
ListWindow(query, ordered) ==
  LET offset == (ListPage(query) - 1) * ListPageSize(query)
      last == IF offset + ListPageSize(query) < Len(ordered)
              THEN offset + ListPageSize(query) ELSE Len(ordered)
  IN SubSeq(ordered, offset + 1, last)

\* int((total + int64(query.PageSize) - 1) / int64(query.PageSize))
TotalPages(total, pageSize) == (total + pageSize - 1) \div pageSize

\* ListResult of List(query): Records (by id), Total, Page, PageSize,
\* TotalPages
ListResult(query) ==
  LET records == ListWindow(query, ListOrdered(query, ListFiltered(query))) IN
  [Records |-> [i \in DOMAIN records |-> records[i].id],
   Total |-> Cardinality(ListFiltered(query)),
   Page |-> ListPage(query),
   PageSize |-> ListPageSize(query),
   TotalPages |-> TotalPages(Cardinality(ListFiltered(query)), ListPageSize(query))]

\* what a read leaves alone; calls counts the reads
ReadFrame ==
  /\ calls' = calls + 1
  /\ UNCHANGED <<storeVars, queueVars, dropVars, now, producerVars, accepted,
                 acceptedBeforeStop, rejected, attempted, insertLog, lifeVars,
                 cacheVars, pluginVars, hookVars, snapVars, lateVars>>

\* Store.List: the read lock, the closed check, the two queries
List ==
  /\ calls < MaxReads
  /\ \E query \in ListQueries, dbOK \in BOOLEAN :
       lastCall' = [seq |-> 1, op |-> "List", err |-> CallErr(dbOK), query |-> query,
                    result |-> IF CallErr(dbOK) = "none" THEN ListResult(query)
                               ELSE NoValue]
  /\ ReadFrame

\* Store.Insert, up to MaxRows rows
ListInsert ==
  /\ nextId <= MaxRows
  /\ StoreInsertWith(ListRecords, 1)

NextList ==
  \/ ListInsert
  \/ List

SpecList == Init /\ [][NextList]_vars

(***************************************************************************)
(* Store.GetActivityHeatmap (store.go): the day range from time.Now() in   *)
(* the process's location, the GROUP BY substr(timestamp, 1, 10) query,    *)
(* the zero fill.                                                          *)
(***************************************************************************)
DefaultHeatmapDays == 90
MaxHeatmapDays == 365
\* the day of the model's current instants, in UTC, counted from the epoch
HeatToday == 20099

\* time.Now(): the instants at which the heatmap is read
HeatInstants == [day : {HeatToday}, hour : {0, 19}]

\* time.Local: UTC, a zone ten hours east, and zones with daylight saving
\* time, east and west of Greenwich, that skipped the hour starting at
\* gap (02:00, or midnight) on the day before HeatToday
HeatLocations ==
  { [std |-> 0, dst |-> FALSE, gap |-> 0], [std |-> 10, dst |-> FALSE, gap |-> 0],
    [std |-> 1, dst |-> TRUE, gap |-> 2], [std |-> -5, dst |-> TRUE, gap |-> 2],
    [std |-> 2, dst |-> TRUE, gap |-> 0], [std |-> -4, dst |-> TRUE, gap |-> 0] }

\* the offset of the location at the model's instants, all after the
\* transition
LocOffset(loc) == loc.std + (IF loc.dst THEN 1 ELSE 0)

\* the records of the calendar models: the current instants written in UTC
\* and in a zone ten hours east, and an older one
HeatRecords ==
  { [ZeroRecord EXCEPT !.request_id = <<"s">>, !.timestamp = t, !.total_tokens = 2] :
      t \in [day : {HeatToday}, hour : {0, 19}, off : {0, 10}]
              \cup {[day |-> HeatToday - 2, hour |-> 12, off |-> 0]} }

\* the days argument
HeatDays == {0, 1, 2, 3}

\* substr(timestamp, 1, 10)
DatePart(timestamp) == timestamp[1]

\* time.Date(year, month, day, hour, ...) in loc: a wall clock inside the
\* skipped hour is moved out of it, forward east of Greenwich, backward west
DateIn(loc, day, hour) ==
  IF loc.dst /\ day = HeatToday - 1 /\ hour = loc.gap
  THEN IF loc.std > 0 THEN [day |-> day, hour |-> hour + 1]
       ELSE IF hour = 0 THEN [day |-> day - 1, hour |-> 23]
       ELSE [day |-> day, hour |-> hour - 1]
  ELSE [day |-> day, hour |-> hour]

\* t.AddDate(0, 0, n) in loc
AddDate(loc, t, n) == DateIn(loc, t.day + n, t.hour)

\* a.After(b), for wall clocks of one location
After(a, b) == a.day > b.day \/ (a.day = b.day /\ a.hour > b.hour)

\* if days < 1 { days = 90 }; if days > 365 { days = 365 }
HeatmapDays(days) ==
  IF days < 1 THEN DefaultHeatmapDays
  ELSE IF days > MaxHeatmapDays THEN MaxHeatmapDays
  ELSE days

\* the rows of one GROUP BY group
DayRows(date) == { row \in rows : DatePart(row.timestamp) = date }

\* SUM(total_tokens) over a group
RECURSIVE SumTokens(_)
SumTokens(set) ==
  IF set = {} THEN 0
  ELSE LET row == CHOOSE r \in set : TRUE
       IN row.total_tokens + SumTokens(set \ {row})

\* the groups of the query: WHERE substr(timestamp, 1, 10) >= start AND
\* <= end (dates of one width compare as their days do)
HeatDates(start, end) ==
  { date \in { DatePart(row.timestamp) : row \in rows } :
      date >= start.day /\ date <= end.day }

\* one scanned row of the query
HeatDay(date) ==
  [Date |-> date, Requests |-> Cardinality(DayRows(date)),
   TotalTokens |-> SumTokens(DayRows(date))]

\* for d := startDate; !d.After(endDate); d = d.AddDate(0, 0, 1) { ... }
RECURSIVE AllDays(_, _, _, _)
AllDays(loc, d, end, dates) ==
  IF After(d, end) THEN << >>
  ELSE <<IF d.day \in dates THEN HeatDay(d.day)
         ELSE [Date |-> d.day, Requests |-> 0, TotalTokens |-> 0]>>
         \o AllDays(loc, AddDate(loc, d, 1), end, dates)

\* the largest of a set of counts, 0 for none
MaxOf(set) == IF set = {} THEN 0 ELSE CHOOSE m \in set : \A x \in set : x <= m

\* the ActivityHeatmap returned at the instant in the location
ActivityHeatmap(loc, instant, days) ==
  LET endDate == WallClock(instant, LocOffset(loc))
      startDate == AddDate(loc, endDate, 1 - HeatmapDays(days))
      dates == HeatDates(startDate, endDate)
      allDays == AllDays(loc, startDate, endDate, dates)
  IN [StartDate |-> startDate.day, EndDate |-> endDate.day,
      TotalDays |-> Len(allDays),
      MaxRequests |-> MaxOf({ Cardinality(DayRows(date)) : date \in dates }),
      Days |-> allDays]

\* Store.GetActivityHeatmap
GetActivityHeatmap ==
  /\ calls < MaxReads
  /\ \E days \in HeatDays, loc \in HeatLocations, instant \in HeatInstants,
        dbOK \in BOOLEAN :
       lastCall' = [seq |-> 1, op |-> "GetActivityHeatmap", err |-> CallErr(dbOK),
                    days |-> days, loc |-> loc, instant |-> instant,
                    result |-> IF CallErr(dbOK) = "none"
                               THEN ActivityHeatmap(loc, instant, days) ELSE NoValue]
  /\ ReadFrame

\* Store.Insert, up to MaxRows rows
HeatInsert ==
  /\ nextId <= MaxRows
  /\ StoreInsertWith(HeatRecords, 1)

NextHeat ==
  \/ HeatInsert
  \/ GetActivityHeatmap

SpecHeat == Init /\ [][NextHeat]_vars

(***************************************************************************)
(* Store.GetUsageKPIs (store.go): the trend window, the bucket and the     *)
(* dense requests and tokens series.                                       *)
(***************************************************************************)
\* seconds of an hour and of a day
Hour == 3600
Day == 24 * Hour

\* the instant, in seconds since the epoch, of noon UTC on the day before
\* HeatToday
TrendBase == ((HeatToday - 1) * 24 + 12) * Hour

\* startTime and endTime: empty, a Unix timestamp, or text that no layout
\* parses
NoParam == [kind |-> "empty"]
Unix(ts) == [kind |-> "unix", ts |-> ts]
StartParams == {NoParam, Unix(TrendBase), Unix(TrendBase + 1800)}
EndParams ==
  {NoParam, [kind |-> "text"], Unix(TrendBase - Hour), Unix(TrendBase + 2 * Hour),
   Unix(TrendBase + 48 * Hour), Unix(TrendBase + 48 * Hour + 1),
   Unix(TrendBase + 48 * Hour + 1800)}

\* ParseTimeParamToTime: the instant in seconds, 0 for the zero time
ParseTimeParamToTime(param) ==
  IF param.kind = "unix" /\ param.ts > 1000000000 THEN param.ts ELSE 0

\* the UTC day and hour of an instant in seconds
DayHour(t) == [day |-> t \div Day, hour |-> (t % Day) \div Hour]

\* trendStart and trendEnd: the defaults, then the swap
TrendWindow(startTime, endTime, instant) ==
  LET end0 == IF ParseTimeParamToTime(endTime) = 0
              THEN (instant.day * 24 + instant.hour) * Hour
              ELSE ParseTimeParamToTime(endTime)
      start0 == IF ParseTimeParamToTime(startTime) = 0
                THEN end0 - 24 * Hour
                ELSE ParseTimeParamToTime(startTime)
  IN IF start0 > end0 THEN [start |-> end0, end |-> start0]
     ELSE [start |-> start0, end |-> end0]

\* bucket := "hour"; if trendEnd.Sub(trendStart) > 48*time.Hour { "day" }
TrendBucket(w) == IF w.end - w.start > 48 * Hour THEN "day" ELSE "hour"

\* SUM(input_tokens + output_tokens + cached_tokens + reasoning_tokens)
RECURSIVE SumAllTokens(_)
SumAllTokens(set) ==
  IF set = {} THEN 0
  ELSE LET row == CHOOSE r \in set : TRUE
       IN row.input_tokens + row.output_tokens + row.cached_tokens
            + row.reasoning_tokens + SumAllTokens(set \ {row})

\* the rows of the group with key substr(timestamp, 1, 13), the date and
\* the hour of a wall clock
HourRows(w) ==
  { row \in rows : /\ DatePart(row.timestamp) = w.day
                   /\ SubSeq(row.timestamp, 3, 4) = TwoDigits(w.hour) }

\* for h := startHour; !h.After(endHour); h = h.Add(time.Hour): one point
\* labelled with the local date and hour of h
RECURSIVE HourPoints(_, _, _)
HourPoints(loc, h, endHour) ==
  IF h > endHour THEN << >>
  ELSE LET w == WallClock(DayHour(h), LocOffset(loc))
       IN <<[T |-> w, Requests |-> Cardinality(HourRows(w)),
             Tokens |-> SumAllTokens(HourRows(w))]>>
            \o HourPoints(loc, h + Hour, endHour)

\* for d := startDay; !d.After(endDay); d = d.AddDate(0, 0, 1): one point
\* labelled with the date of d
RECURSIVE DayPoints(_, _, _)
DayPoints(loc, d, endDay) ==
  IF After(d, endDay) THEN << >>
  ELSE <<[T |-> d.day, Requests |-> Cardinality(DayRows(d.day)),
          Tokens |-> SumAllTokens(DayRows(d.day))]>>
         \o DayPoints(loc, AddDate(loc, d, 1), endDay)

\* the trend of UsageKPIs: TrendBucket and the points of RequestsTrend and
\* TokensTrend
UsageTrend(loc, w) ==
  [TrendBucket |-> TrendBucket(w),
   Points |->
     IF TrendBucket(w) = "day"
     THEN DayPoints(loc,
                    DateIn(loc, WallClock(DayHour(w.start), LocOffset(loc)).day, 0),
                    DateIn(loc, WallClock(DayHour(w.end), LocOffset(loc)).day, 0))
     ELSE HourPoints(loc, w.start - (w.start % Hour), w.end - (w.end % Hour))]

\* Store.GetUsageKPIs
GetUsageKPIs ==
  /\ calls < MaxReads
  /\ \E startTime \in StartParams, endTime \in EndParams, loc \in HeatLocations,
        instant \in HeatInstants, dbOK \in BOOLEAN :
       lastCall' = [seq |-> 1, op |-> "GetUsageKPIs", err |-> CallErr(dbOK),
                    startTime |-> startTime, endTime |-> endTime, loc |-> loc,
                    instant |-> instant,
                    result |-> IF CallErr(dbOK) = "none"
                               THEN UsageTrend(loc, TrendWindow(startTime, endTime, instant))
                               ELSE NoValue]
  /\ ReadFrame

NextKPIs ==
  \/ HeatInsert
  \/ GetUsageKPIs

SpecKPIs == Init /\ [][NextKPIs]_vars

(***************************************************************************)
(* Store.GetIntervalTimeline (store.go): the successful rows since         *)
(* now - hours in timestamp order, the intervals between consecutive       *)
(* rows, the even sample down to limit points.                             *)
(***************************************************************************)
DefaultIntervalHours == 24
MaxIntervalHours == 720
DefaultIntervalLimit == 5000
MaxIntervalLimit == 10000
\* Only include intervals <= 120 minutes
MaxIntervalMinutes == 120

\* the records of the interval model: successful ones at 14:00, 17:00 and
\* 19:00 UTC of HeatToday, written in UTC or in a zone ten hours east, and
\* a failed one
IntervalRecords ==
  { [ZeroRecord EXCEPT !.request_id = <<"s">>, !.timestamp = t, !.success = TRUE,
                       !.model = <<"m", "1">>] :
      t \in [day : {HeatToday}, hour : {14, 17, 19}, off : {0, 10}] }
  \cup { [ZeroRecord EXCEPT !.request_id = <<"s">>,
                            !.timestamp = [day |-> HeatToday, hour |-> 18, off |-> 0]] }

\* the hours and limit arguments
IntervalHours == {0, 1, 6}
IntervalLimits == {0, 1, 2}

\* the locations of the interval model: the ones without daylight saving
IntervalLocations == { loc \in HeatLocations : ~loc.dst }

\* hours and limit after the defaults and the caps
TimelineHours(hours) ==
  IF hours < 1 THEN DefaultIntervalHours
  ELSE IF hours > MaxIntervalHours THEN MaxIntervalHours ELSE hours

TimelineLimit(limit) ==
  IF limit < 1 THEN DefaultIntervalLimit
  ELSE IF limit > MaxIntervalLimit THEN MaxIntervalLimit ELSE limit

\* a < b for two timestamps of the calendar models as TEXT: the date, then
\* the characters after the "T"
TimestampLess(a, b) ==
  \/ a[1] < b[1]
  \/ a[1] = b[1] /\ TextLess(SubSeq(a, 3, Len(a)), SubSeq(b, 3, Len(b)))

\* time.Parse(time.RFC3339, timestampStr): the instant, in hours since the
\* epoch
ParseRFC3339(timestamp) ==
  LET hour == CHOOSE h \in 0..23 : TwoDigits(h) = SubSeq(timestamp, 3, 4)
      off == IF timestamp[5] = "Z" THEN 0
             ELSE CHOOSE o \in 0..14 : TwoDigits(o) = SubSeq(timestamp, 6, 7)
  IN timestamp[1] * 24 + hour - off

\* startTime.Format(time.RFC3339) for startTime := time.Now().Add(-hours)
TimelineStart(loc, instant, hours) ==
  LET h == instant.day * 24 + instant.hour - TimelineHours(hours)
  IN FormatRFC3339([day |-> h \div 24, hour |-> h % 24, off |-> LocOffset(loc)])

\* WHERE timestamp >= ? AND success = 1
TimelineRows(start) ==
  { row \in rows : row.success /\ ~TimestampLess(row.timestamp, start) }

\* ORDER BY timestamp ASC; rows with one timestamp in the order of the scan
RECURSIVE TimelineOrdered(_)
TimelineOrdered(set) ==
  IF set = {} THEN << >>
  ELSE LET first == CHOOSE a \in set : \A b \in set \ {a} :
                      \/ TimestampLess(a.timestamp, b.timestamp)
                      \/ (~TimestampLess(b.timestamp, a.timestamp) /\ a.id < b.id)
       IN <<first>> \o TimelineOrdered(set \ {first})

\* records[i].timestamp.Sub(records[i-1].timestamp).Minutes()
IntervalMinutes(records, i) ==
  (ParseRFC3339(records[i].timestamp) - ParseRFC3339(records[i - 1].timestamp)) * 60

\* the positions whose interval is kept: if interval > 120 { continue }
KeptIntervals(records) ==
  { i \in 2..Len(records) : ~(IntervalMinutes(records, i) > MaxIntervalMinutes) }

\* the points, in the order of the records
RECURSIVE TimelinePoints(_, _)
TimelinePoints(records, i) ==
  IF i > Len(records) THEN << >>
  ELSE (IF i \in KeptIntervals(records)
        THEN <<[X |-> records[i].timestamp, Y |-> IntervalMinutes(records, i),
                Model |-> records[i].model]>>
        ELSE << >>) \o TimelinePoints(records, i + 1)

\* if len(points) > limit: the points at int(float64(i) * step), i < limit
Sampled(points, limit) ==
  IF Len(points) > limit
  THEN [i \in 1..limit |-> points[(((i - 1) * Len(points)) \div limit) + 1]]
  ELSE points

\* the points of IntervalTimelineResult
IntervalTimeline(loc, instant, hours, limit) ==
  Sampled(TimelinePoints(TimelineOrdered(TimelineRows(TimelineStart(loc, instant, hours))), 2),
          TimelineLimit(limit))

\* Store.GetIntervalTimeline
GetIntervalTimeline ==
  /\ calls < MaxReads
  /\ \E hours \in IntervalHours, limit \in IntervalLimits, loc \in IntervalLocations,
        instant \in HeatInstants, dbOK \in BOOLEAN :
       lastCall' = [seq |-> 1, op |-> "GetIntervalTimeline", err |-> CallErr(dbOK),
                    hours |-> hours, limit |-> limit, loc |-> loc, instant |-> instant,
                    survivors |-> IF CallErr(dbOK) = "none"
                                  THEN Len(IntervalTimeline(loc, instant, hours,
                                                            MaxIntervalLimit))
                                  ELSE 0,
                    result |-> IF CallErr(dbOK) = "none"
                               THEN IntervalTimeline(loc, instant, hours, limit)
                               ELSE NoValue]
  /\ ReadFrame

\* Store.Insert, up to MaxRows rows
IntervalInsert ==
  /\ nextId <= MaxRows
  /\ StoreInsertWith(IntervalRecords, 1)

NextInterval ==
  \/ IntervalInsert
  \/ GetIntervalTimeline

SpecInterval == Init /\ [][NextInterval]_vars


(***************************************************************************)
(* RetentionCleaner: Start, Stop, UpdateRetentionDays, loop and runOnce.   *)
(***************************************************************************)
\* time.Local of the process: UTC or ten hours east
RetentionLocations == {0, 10}

\* time.Now() at the start of a cycle
RetentionNow == [day |-> HeatToday, hour |-> 19]

\* the retentionDays arguments
RetentionDayValues == {0, 2}

\* the records of the retention model, written in UTC: 20 and 60 hours
\* before RetentionNow
RetentionRecords ==
  { [ZeroRecord EXCEPT !.request_id = <<"s">>, !.timestamp = t] :
      t \in { [day |-> HeatToday - 1, hour |-> 23, off |-> 0],
              [day |-> HeatToday - 3, hour |-> 7, off |-> 0] } }

\* close(ch) on the cleaner: closing a closed channel panics
CloseChan(c, ch) ==
  IF c[ch] THEN [c EXCEPT !.panicked = TRUE] ELSE [c EXCEPT ![ch] = TRUE]

\* what the retention model leaves alone
CleanerFrame ==
  UNCHANGED <<nextId, candidates, closed, queueVars, dropVars, now, producerVars,
              ghostVars, lifeVars, storeCallVars, cacheVars, pluginVars, hookVars,
              snapVars, persist, defaultStore, patcher>>

\* Start: startOnce.Do(func() { started.Store(true); go loop() })
CleanerStart ==
  /\ ~cleaner.panicked
  /\ ~cleaner.startOnce
  /\ \E loc \in RetentionLocations :
       cleaner' = [cleaner EXCEPT !.startOnce = TRUE, !.started = TRUE,
                                  !.pc = "waiting", !.loc = loc]
  /\ UNCHANGED rows
  /\ CleanerFrame

\* Stop, first part: stopOnce.Do(close(stop)), then started.Load()
CleanerStopBegin(s) ==
  /\ ~cleaner.panicked
  /\ cleaner.spc[s] = "idle"
  /\ cleaner' = [cleaner EXCEPT !.stopOnce = TRUE, !.stop = TRUE,
                   !.spc[s] = IF cleaner.started THEN "wait" ELSE "closeDone"]
  /\ UNCHANGED rows
  /\ CleanerFrame

\* Stop, not started: close(c.done); return
CleanerStopCloseDone(s) ==
  /\ ~cleaner.panicked
  /\ cleaner.spc[s] = "closeDone"
  /\ cleaner' = [CloseChan(cleaner, "done") EXCEPT !.spc[s] = "returned"]
  /\ UNCHANGED rows
  /\ CleanerFrame

\* Stop, started: <-c.done, then the return ("waited")
CleanerStopWait(s) ==
  /\ ~cleaner.panicked
  /\ cleaner.spc[s] = "wait"
  /\ cleaner.done
  /\ cleaner' = [cleaner EXCEPT !.spc[s] = "waited"]
  /\ UNCHANGED rows
  /\ CleanerFrame

\* UpdateRetentionDays(days): retentionDays.Swap
UpdateRetentionDays ==
  /\ ~cleaner.panicked
  /\ cleaner.updates < MaxUpdates
  /\ \E days \in RetentionDayValues :
       cleaner' = [cleaner EXCEPT !.previous = cleaner.retentionDays,
                                  !.retentionDays = days,
                                  !.updates = cleaner.updates + 1]
  /\ UNCHANGED rows
  /\ CleanerFrame

\* loop: case <-c.stop: return, with the deferred close(c.done)
CleanerLoopStop ==
  /\ ~cleaner.panicked
  /\ cleaner.pc = "waiting"
  /\ cleaner.stop
  /\ cleaner' = [CloseChan(cleaner, "done") EXCEPT !.pc = "exited"]
  /\ UNCHANGED rows
  /\ CleanerFrame

\* if days <= 0 { return }
RetentionDisabledBelowZero(days) == days < 0
RetentionDisabled(days) == days <= 0

\* time.Now().Add(-time.Duration(days) * 24 * time.Hour).Format(time.RFC3339)
RetentionCutoff(loc, instant, days) ==
  LET h == instant.day * 24 + instant.hour - days * 24
  IN FormatRFC3339([day |-> h \div 24, hour |-> h % 24, off |-> loc])

\* loop: case <-timer.C: runOnce up to the batch loop
RunOnceBegin ==
  /\ ~cleaner.panicked
  /\ cleaner.pc = "waiting"
  /\ cleaner.cycles < MaxCycles
  /\ LET days == cleaner.retentionDays
         c == [cleaner EXCEPT !.days = days, !.cycles = cleaner.cycles + 1,
                              !.lastBatch = {}, !.totalDeleted = 0, !.elapsed = 0]
     IN cleaner' = IF RetentionDisabled(days)
                   THEN [c EXCEPT !.exit = "disabled", !.cutoff = << >>]
                   ELSE [c EXCEPT !.pc = "batch", !.exit = "none",
                                  !.cutoff = RetentionCutoff(cleaner.loc, RetentionNow, days)]
  /\ UNCHANGED rows
  /\ CleanerFrame

\* SELECT id ... WHERE timestamp < ? ORDER BY timestamp ASC LIMIT ?
OlderThanCutoffBatch(cutoff, batchSize) ==
  LET older == TimelineOrdered({ row \in rows : TimestampLess(row.timestamp, cutoff) })
      n == IF Len(older) < batchSize THEN Len(older) ELSE batchSize
  IN { older[i] : i \in 1..n }

\* if batchSize <= 0 { batchSize = defaultRetentionBatchSize }
BatchSize(batchSize) ==
  IF batchSize <= 0 THEN defaultRetentionBatchSize ELSE batchSize

\* one turn of the batch loop: the two deadline tests, then
\* deleteOlderThanCutoffBatch, which fails, runs into the deadline, or deletes
RunOnceBatch ==
  /\ ~cleaner.panicked
  /\ cleaner.pc = "batch"
  /\ IF cleaner.elapsed >= cleaner.maxRuntime
     THEN /\ cleaner' = [cleaner EXCEPT !.pc = "waiting", !.exit = "deadline"]
          /\ UNCHANGED rows
     ELSE \E outcome \in {"ok", "error", "timeout"} :
            LET batch == OlderThanCutoffBatch(cleaner.cutoff, BatchSize(cleaner.batchSize)) IN
            CASE outcome = "error" ->
                   /\ cleaner' = [cleaner EXCEPT !.pc = "waiting", !.exit = "error"]
                   /\ UNCHANGED rows
              [] outcome = "timeout" ->
                   /\ cleaner' = [cleaner EXCEPT !.pc = "waiting", !.exit = "deadline",
                                                 !.elapsed = cleaner.maxRuntime]
                   /\ UNCHANGED rows
              [] OTHER ->
                   /\ rows' = rows \ batch
                   /\ cleaner' = IF batch = {}
                                 THEN [cleaner EXCEPT !.pc = "waiting", !.exit = "empty",
                                                      !.lastBatch = {}]
                                 ELSE [cleaner EXCEPT !.pc = "pause", !.lastBatch = batch,
                                         !.totalDeleted = cleaner.totalDeleted + Cardinality(batch)]
  /\ CleanerFrame

\* the pause between batches: select on stop, ctx.Done(), time.After(pause)
RunOncePause ==
  /\ ~cleaner.panicked
  /\ cleaner.pc = "pause"
  /\ \/ /\ cleaner.stop
        /\ cleaner' = [cleaner EXCEPT !.pc = "waiting", !.exit = "stop"]
     \/ /\ cleaner.elapsed >= cleaner.maxRuntime
        /\ cleaner' = [cleaner EXCEPT !.pc = "batch"]
     \/ \E late \in BOOLEAN :
          cleaner' = [cleaner EXCEPT !.pc = "batch",
                        !.elapsed = IF late THEN cleaner.maxRuntime
                                    ELSE cleaner.elapsed + cleaner.pause]
  /\ UNCHANGED rows
  /\ CleanerFrame

\* Store.Insert of a record, up to MaxRetentionRows rows
RetentionInsert ==
  /\ ~cleaner.panicked
  /\ nextId <= MaxRetentionRows
  /\ StoreInsertWith(RetentionRecords, 1)

NextRetention ==
  \/ CleanerStart
  \/ \E s \in Stoppers : CleanerStopBegin(s)
  \/ \E s \in Stoppers : CleanerStopCloseDone(s)
  \/ \E s \in Stoppers : CleanerStopWait(s)
  \/ UpdateRetentionDays
  \/ CleanerLoopStop
  \/ RunOnceBegin
  \/ RunOnceBatch
  \/ RunOncePause
  \/ RetentionInsert

SpecRetention == Init /\ [][NextRetention]_vars


(***************************************************************************)
(* StartSnapshotPersistence: the ticker loop and the dirty flag.           *)
(***************************************************************************)
\* what the persistence model leaves alone
PersistFrame ==
  UNCHANGED <<storeVars, queueVars, dropVars, now, producerVars, ghostVars, lifeVars,
              storeCallVars, cacheVars, pluginVars, hookVars, snapVars, cleaner,
              defaultStore, patcher>>

\* StartSnapshotPersistence: go func() { ticker := time.NewTicker(interval) ...
StartSnapshotPersistence ==
  /\ persist.pc = "none"
  /\ persist' = [persist EXCEPT !.pc = "idle"]
  /\ PersistFrame

\* RequestStatistics.Record, first part: the record is added to the
\* statistics
RecordData ==
  /\ persist.rpc = "idle"
  /\ persist.data < MaxStatsRecords
  /\ persist' = [persist EXCEPT !.data = persist.data + 1, !.rpc = "mark"]
  /\ PersistFrame

\* RequestStatistics.Record, second part: the statistics are marked dirty
RecordMark ==
  /\ persist.rpc = "mark"
  /\ persist' = [persist EXCEPT !.dirty = TRUE, !.rpc = "idle"]
  /\ PersistFrame

\* for range ticker.C: if !stats.dirty.CompareAndSwap(true, false) { continue }
PersistTick ==
  /\ persist.pc = "idle"
  /\ persist' = IF persist.dirty
                THEN [persist EXCEPT !.dirty = FALSE, !.pc = "snapshot"]
                ELSE persist
  /\ PersistFrame

\* snapshot := stats.Snapshot()
PersistSnapshot ==
  /\ persist.pc = "snapshot"
  /\ persist' = [persist EXCEPT !.snap = persist.data, !.pc = "save"]
  /\ PersistFrame

\* if err := saveSnapshotFile(...); err != nil { stats.dirty.Store(true) }
DirtyAfterSaveUnchanged(err, dirty) == dirty
DirtyAfterSave(err, dirty) == IF err THEN TRUE ELSE dirty

\* saveSnapshotFile returns: the file holds the snapshot, or the write
\* failed and the old file is still there or was removed
PersistSave ==
  /\ persist.pc = "save"
  /\ \E err \in BOOLEAN, removed \in BOOLEAN :
       persist' = [persist EXCEPT
                     !.pc = "idle",
                     !.dirty = DirtyAfterSave(err, persist.dirty),
                     !.file = IF ~err THEN persist.snap
                              ELSE IF removed THEN 0 ELSE persist.file,
                     !.failed = persist.failed \/ err,
                     !.covered = IF persist.snap > persist.covered
                                 THEN persist.snap ELSE persist.covered]
  /\ PersistFrame

NextPersist ==
  \/ StartSnapshotPersistence
  \/ RecordData
  \/ RecordMark
  \/ PersistTick
  \/ PersistSnapshot
  \/ PersistSave

\* the ticker keeps firing and the loop's goroutine is scheduled; Record
\* returns
SpecPersist ==
  /\ Init /\ [][NextPersist]_vars
  /\ WF_vars(PersistTick /\ persist.dirty) /\ WF_vars(PersistSnapshot)
  /\ WF_vars(PersistSave) /\ WF_vars(RecordMark)


(***************************************************************************)
(* The default Store: InitDefaultStore and CloseDefaultStore.              *)
(***************************************************************************)
\* what the default store model leaves alone
DefaultFrame ==
  UNCHANGED <<storeVars, queueVars, dropVars, now, producerVars, ghostVars, lifeVars,
              storeCallVars, cacheVars, pluginVars, hookVars, snapVars, cleaner,
              persist, patcher>>

\* defaultStoreMu.Lock() succeeds when no caller holds the mutex
CanLockAlways(mu) == TRUE
CanLock(mu) == mu = 0

\* a caller enters InitDefaultStore or CloseDefaultStore and takes the mutex
DefaultLock(c) ==
  /\ defaultStore.pc[c] = "idle"
  /\ defaultStore.calls < MaxDefaultCalls
  /\ CanLock(defaultStore.mu)
  /\ \E op \in {"init", "close"} :
       defaultStore' = [defaultStore EXCEPT !.mu = c, !.pc[c] = op, !.ret[c] = "none",
                                            !.calls = defaultStore.calls + 1]
  /\ DefaultFrame

\* return, with the deferred defaultStoreMu.Unlock()
DefaultReturn(d, c, ret) ==
  [d EXCEPT !.mu = 0, !.pc[c] = "idle", !.ret[c] = ret]

\* InitDefaultStore: if defaultStore != nil { return nil }
InitDefaultStoreCheck(c) ==
  /\ defaultStore.pc[c] = "init"
  /\ defaultStore' = IF defaultStore.ptr # 0
                     THEN DefaultReturn(defaultStore, c, "nil")
                     ELSE [defaultStore EXCEPT !.pc[c] = "create"]
  /\ DefaultFrame

\* InitDefaultStore: store, err := NewStore(dataDir); defaultStore = store
InitDefaultStoreCreate(c) ==
  /\ defaultStore.pc[c] = "create"
  /\ \E ok \in BOOLEAN :
       defaultStore' =
         IF ok
         THEN DefaultReturn([defaultStore EXCEPT
                               !.made = defaultStore.made + 1,
                               !.ptr = defaultStore.made + 1,
                               !.open = defaultStore.open \cup {defaultStore.made + 1}],
                            c, "nil")
         ELSE DefaultReturn(defaultStore, c, "err")
  /\ DefaultFrame

\* CloseDefaultStore: if defaultStore == nil { return nil }
CloseDefaultStoreCheck(c) ==
  /\ defaultStore.pc[c] = "close"
  /\ defaultStore' = IF defaultStore.ptr = 0
                     THEN DefaultReturn(defaultStore, c, "nil")
                     ELSE [defaultStore EXCEPT !.pc[c] = "closing"]
  /\ DefaultFrame

\* CloseDefaultStore: err := defaultStore.Close(); defaultStore = nil.  A
\* caller that finds the singleton already nil here (only without the
\* mutex) dereferences nil
CloseDefaultStoreClose(c) ==
  /\ defaultStore.pc[c] = "closing"
  /\ \E err \in {"nil", "err"} :
       defaultStore' =
         IF defaultStore.ptr = 0
         THEN DefaultReturn(defaultStore, c, "panic")
         ELSE DefaultReturn([defaultStore EXCEPT
                               !.closes[defaultStore.ptr] = @ + 1,
                               !.open = defaultStore.open \ {defaultStore.ptr},
                               !.ptr = 0],
                            c, err)
  /\ DefaultFrame

NextDefault ==
  \/ \E c \in DefaultCallers : DefaultLock(c)
  \/ \E c \in DefaultCallers : InitDefaultStoreCheck(c)
  \/ \E c \in DefaultCallers : InitDefaultStoreCreate(c)
  \/ \E c \in DefaultCallers : CloseDefaultStoreCheck(c)
  \/ \E c \in DefaultCallers : CloseDefaultStoreClose(c)

SpecDefault == Init /\ [][NextDefault]_vars


(***************************************************************************)
(* Store.mu: PatchByID against Close.                                      *)
(***************************************************************************)
\* what the mutex model leaves alone
PatcherFrame ==
  UNCHANGED <<storeVars, queueVars, dropVars, now, producerVars, ghostVars, lifeVars,
              storeCallVars, cacheVars, pluginVars, hookVars, snapVars, cleaner,
              persist, defaultStore>>

\* PatchByID: if s.isClosed() { return 0, "store is closed" }; the read of
\* closed waits while a writer holds Store.mu, and the mutex is released
\* before isClosed returns
PatchByIDCheck(c) ==
  /\ patcher.pc[c] = "idle"
  /\ patcher.calls < MaxPatchCalls
  /\ patcher.mu = 0
  /\ patcher' = IF patcher.closed
                THEN [patcher EXCEPT !.ret[c] = "store is closed",
                                     !.calls = patcher.calls + 1]
                ELSE [patcher EXCEPT !.pc[c] = "exec", !.ret[c] = "none",
                                     !.calls = patcher.calls + 1]
  /\ PatcherFrame

\* PatchByID: s.db.ExecContext is called, with Store.mu not held: a closed
\* sql.DB refuses the statement, an open one gives it a connection
PatchByIDExec(c) ==
  /\ patcher.pc[c] = "exec"
  /\ patcher' = IF patcher.dbClosed
                THEN [patcher EXCEPT !.pc[c] = "idle",
                                     !.ret[c] = "failed to update record"]
                ELSE [patcher EXCEPT !.pc[c] = "running"]
  /\ PatcherFrame

\* PatchByID: the statement runs on its connection, which db.Close() leaves
\* alone while it is in use; invalidateCaches; return affected, nil
PatchByIDUpdate(c) ==
  /\ patcher.pc[c] = "running"
  /\ \E dbOK \in BOOLEAN :
       patcher' = IF dbOK
                  THEN [patcher EXCEPT !.pc[c] = "idle", !.ret[c] = "nil",
                                       !.updates = patcher.updates + 1]
                  ELSE [patcher EXCEPT !.pc[c] = "idle",
                                       !.ret[c] = "failed to update record"]
  /\ PatcherFrame

\* Close: s.mu.Lock()
PatcherCloseLock ==
  /\ patcher.cpc = "idle"
  /\ ~patcher.closeReturned
  /\ patcher.mu = 0
  /\ patcher' = [patcher EXCEPT !.mu = 1, !.cpc = "locked"]
  /\ PatcherFrame

\* Close: s.closed = true; s.db.Close(), which closes the idle connections
\* and refuses new statements
PatcherCloseBody ==
  /\ patcher.cpc = "locked"
  /\ patcher' = [patcher EXCEPT !.closed = TRUE, !.dbClosed = TRUE, !.cpc = "unlock"]
  /\ PatcherFrame

\* Close: the deferred s.mu.Unlock() and the return
PatcherCloseReturn ==
  /\ patcher.cpc = "unlock"
  /\ patcher' = [patcher EXCEPT !.mu = 0, !.cpc = "idle", !.closeReturned = TRUE]
  /\ PatcherFrame

NextPatcher ==
  \/ \E c \in PatchCallers : PatchByIDCheck(c)
  \/ \E c \in PatchCallers : PatchByIDExec(c)
  \/ \E c \in PatchCallers : PatchByIDUpdate(c)
  \/ PatcherCloseLock
  \/ PatcherCloseBody
  \/ PatcherCloseReturn

SpecPatcher == Init /\ [][NextPatcher]_vars


(***************************************************************************)
(* Properties.                                                             *)
(***************************************************************************)
\* the usage_records rows of a request id
RowsOf(requestID) == { row \in rows : row.request_id = requestID }

\* the pending row of request r (its id is in the gin context)
RowOf(r) == CHOOSE row \in rows : row.id = req[r].recordID

\* positions of the exit patch in the history of request r
ExitPatches(r) ==
  { i \in DOMAIN req[r].hist : req[r].hist[i] \in {"exit_patch", "exit_patch_failed"} }

\* C1: after pending insert -> usage-event patch -> exit patch, exactly one
\* row exists for the request id; it carries the exit patch's status code,
\* success, duration and response body and the usage event's provider,
\* model and token counts.
C1_OneRowAfterTwoPhase ==
  \A r \in Requests :
    req[r].hist = <<"insert", "usage_patch", "exit_patch">> =>
      /\ Cardinality(RowsOf(req[r].requestID)) = 1
      /\ \A row \in RowsOf(req[r].requestID) :
           /\ row.id = req[r].recordID
           /\ row.status_code = req[r].exitPatch.status_code
           /\ row.success = req[r].exitPatch.success
           /\ row.duration_ms = req[r].exitPatch.duration_ms
           /\ row.response_body = req[r].exitPatch.response_body
           /\ row.provider = req[r].event.provider
           /\ row.model = req[r].event.model
           /\ row.input_tokens = req[r].event.input_tokens
           /\ row.output_tokens = req[r].event.output_tokens
           /\ row.total_tokens = req[r].event.total_tokens
           /\ row.cached_tokens = req[r].event.cached_tokens
           /\ row.reasoning_tokens = req[r].event.reasoning_tokens

C1_Witness ==
  \E r \in Requests :
    /\ req[r].hist = <<"insert", "usage_patch", "exit_patch">>
    /\ RowOf(r).duration_ms > 0
    /\ RowOf(r).provider = <<"openai">>

\* C7: the exit patch is issued only after the pending insert succeeded,
\* and exactly once on every exit path of a request whose insert succeeded.
C7_ExitPatchOnceAfterInsert ==
  \A r \in Requests :
    /\ \A i \in ExitPatches(r) : \E j \in 1..(i - 1) : req[r].hist[j] = "insert"
    /\ Cardinality(ExitPatches(r)) <= 1
    /\ (req[r].pc = "done" /\ req[r].recordID > 0) => Cardinality(ExitPatches(r)) = 1
    /\ req[r].recordID = 0 => ExitPatches(r) = {}

C7_Witness ==
  \E r \in Requests :
    /\ req[r].pc = "done"
    /\ req[r].panicked.panic
    /\ req[r].hist = <<"insert", "exit_patch">>

\* neither response_body_for_log nor API_RESPONSE holds a body
NoBodyCaptured(c) ==
  /\ ~(c.responseBodyForLog.type = "bytes" /\ c.responseBodyForLog.val # Empty)
  /\ ~(c.responseBodyForLog.type = "string" /\ TrimSpace(c.responseBodyForLog.val) # Empty)
  /\ ~(c.apiResponse.type = "bytes" /\ TrimSpace(c.apiResponse.val) # Empty)

\* the exit patch of request r was written
ExitPatched(r) ==
  \E i \in DOMAIN req[r].hist : req[r].hist[i] = "exit_patch"

\* C6 as claimed: after a panic the record has status 500, success=false
\* and, when no body was captured, the panic message as response_body; the
\* panic value is re-raised on every path.
C6_PanicMessageStored ==
  \A r \in Requests :
    (req[r].pc = "done" /\ req[r].tracked /\ req[r].panicked.panic) =>
      /\ req[r].raised = req[r].panicked
      /\ ExitPatched(r) =>
           /\ RowOf(r).status_code = StatusInternalServerError
           /\ RowOf(r).success = FALSE
           /\ NoBodyCaptured(req[r]) => RowOf(r).response_body = req[r].panicked.msg

\* C6 amended: ... when no body was captured and the panic message is not
\* blank, the message trimmed of surrounding white space is the
\* response_body; the panic value is re-raised on every path.
C6_PanicRecordedAndReraised ==
  \A r \in Requests :
    (req[r].pc = "done" /\ req[r].tracked /\ req[r].panicked.panic) =>
      /\ req[r].raised = req[r].panicked
      /\ ExitPatched(r) =>
           /\ RowOf(r).status_code = StatusInternalServerError
           /\ RowOf(r).success = FALSE
           /\ (NoBodyCaptured(req[r]) /\ TrimSpace(req[r].panicked.msg) # Empty) =>
                RowOf(r).response_body = TrimSpace(req[r].panicked.msg)

C6_Witness ==
  \E r \in Requests :
    /\ req[r].pc = "done"
    /\ req[r].panicked = Panic(<<Space, "boom", Space>>)
    /\ req[r].raised = req[r].panicked
    /\ ExitPatched(r)
    /\ RowOf(r).response_body = <<"boom">>

\* status_code is in [200, 400)
StatusOK(code) == code >= 200 /\ code < StatusBadRequest

\* C8: for every completed record, success holds exactly when status_code
\* is in [200,400), no usage event of the request was marked failed and the
\* handler did not panic; a fallback row marked successful has such a status.
C8_SuccessIffStatusOKNotFailedNoPanic ==
  /\ \A r \in Requests :
       (req[r].pc = "done" /\ ExitPatched(r)) =>
         (RowOf(r).success <=>
            (StatusOK(RowOf(r).status_code) /\ ~req[r].failed /\ ~req[r].panicked.panic))
  /\ \A row \in rows :
       (row.provider # <<"pending">> /\ \A r \in Requests : row.id # req[r].recordID) =>
         (row.success => StatusOK(row.status_code))

\* C9: every usage record has total_tokens = input_tokens + output_tokens.
C9_TotalIsInputPlusOutput ==
  \A row \in rows : row.total_tokens = row.input_tokens + row.output_tokens

\* C10: every usage record has api_key_masked = mask(api_key).
C10_MaskedKeyIsMaskOfKey ==
  \A row \in rows : row.api_key_masked = MaskAPIKey(row.api_key)


\* the next step of producer p inside its Enqueue call
ProducerStep(p) == EnqueueSend(p) \/ logWriteDropLoad(p) \/ logWriteDropStore(p)

\* the tasks in the channel buffer
Queued == { writeQueue[i].tid : i \in DOMAIN writeQueue }

\* at the select of an Enqueue call: a full queue leaves the queue as it is
\* and takes the drop branch, otherwise the task is placed and accepted
SendOutcome(p) ==
  (ppc[p] = "send" /\ ppc'[p] # "send") =>
    IF Len(writeQueue) >= QueueCap
    THEN /\ writeQueue' = writeQueue
         /\ ppc'[p] = "drop"
         /\ plocal[p].task.tid \notin accepted'
    ELSE /\ writeQueue' = Append(writeQueue, plocal[p].task)
         /\ ppc'[p] = "idle"
         /\ plocal[p].task.tid \in accepted'

C3_AtMostOnceDelivery ==
  /\ \A i, j \in DOMAIN insertLog : i # j => insertLog[i] # insertLog[j]
  /\ \A i \in DOMAIN insertLog :
       insertLog[i] \in accepted /\ insertLog[i] \notin rejected

C3_Witness ==
  /\ Len(insertLog) >= 2
  /\ rejected # {}
  /\ closed
  /\ writeDone

\* C4: when the drain task has exited, every task accepted before the stop
\* signal has been taken off the queue and written (or its write failed).
C4_StopDrainsQueue ==
  writeDone =>
    \A tid \in acceptedBeforeStop : \E i \in DOMAIN attempted : attempted[i] = tid

\* C5: any two drop-log warnings are at least writeDropLogInterval apart.
C5_OneDropLogPerInterval ==
  \A i, j \in DOMAIN dropLogs :
    i < j => dropLogs[j] - dropLogs[i] >= writeDropLogInterval

(***************************************************************************)
(* Properties of the store operations called directly.                     *)
(***************************************************************************)
\* the step is a direct call of operation op that returned nil
CalledOK(op) ==
  lastCall'.seq # lastCall.seq /\ lastCall'.op = op /\ lastCall'.err = "none"

\* C11: no step changes the request_id of a row: after any sequence of
\* PatchByID calls it is the value the row was inserted with.
C11_PatchKeepsRequestID ==
  [][\A row \in rows : \A new \in rows' :
       new.id = row.id => new.request_id = row.request_id]_vars

C11_Witness ==
  /\ lastCall.op = "PatchByID"
  /\ lastCall.patch = FullPatch
  /\ lastCall.affected = 1
  /\ \E row \in rows : row.request_id = <<"s">> /\ row.provider = <<"patched">>

\* C13: a PatchByID(id, patch) that returns nil writes exactly the columns
\* whose field is set, on the row with that id; every other column of the
\* row, every other row and the candidates are unchanged.
C13_PatchWritesOnlySetFields ==
  [][CalledOK("PatchByID") =>
       /\ Cardinality(rows') = Cardinality(rows)
       /\ candidates' = candidates
       /\ \A row \in rows :
            IF row.id = lastCall'.id
            THEN \E new \in rows' :
                   \A col \in DOMAIN row :
                     new[col] = IF col \in DOMAIN lastCall'.patch
                                THEN PatchArg(col, lastCall'.patch[col])
                                ELSE row[col]
            ELSE row \in rows']_vars

C13_Witness ==
  /\ lastCall.op = "PatchByID"
  /\ DOMAIN lastCall.patch = {"status_code"}
  /\ lastCall.affected = 1
  /\ \E row \in rows : row.status_code = 418
  /\ \E row \in rows : row.status_code = 0

\* the instant a stored timestamp denotes: its wall clock less its offset
DigitValue(c) == CHOOSE d \in 0..9 : Digit(d) = c
TwoDigitValue(text, i) == 10 * DigitValue(text[i]) + DigitValue(text[i + 1])
InstantOf(text) ==
  TwoDigitValue(text, 1) - (IF text[3] = "Z" THEN 0 ELSE TwoDigitValue(text, 4))

\* C18: a DeleteOlderThan(d) that returns nil removes every row whose
\* request time is before now - d and no other row.
C18_DeleteOlderThanByInstant ==
  [][CalledOK("DeleteOlderThan") =>
       \A row \in rows :
         row \in rows' <=> InstantOf(row.timestamp) >= now - lastCall'.age]_vars

\* C19: once the store is closed, every database operation returns the
\* closed-store error and leaves the tables alone, both enqueue operations
\* return false and leave the queue and the drop log alone, and Close
\* returns nil.
DatabaseOps ==
  ReadOps \cup {"Insert", "InsertRequestCandidate", "PatchByID", "DeleteOlderThan"}
C19_ClosedStoreRefusesEverything ==
  [][(closed /\ lastCall'.seq # lastCall.seq) =>
       /\ closed'
       /\ UNCHANGED <<rows, nextId, candidates, writeQueue, dropVars>>
       /\ lastCall'.op \in DatabaseOps => lastCall'.err = "closed"
       /\ lastCall'.op \in {"EnqueueUsageRecord", "EnqueueRequestCandidate"} =>
            ~lastCall'.ok
       /\ lastCall'.op = "Close" => lastCall'.err = "none"]_vars

C19_Witness ==
  /\ closed
  /\ lastCall.op = "EnqueueUsageRecord"
  /\ ~lastCall.ok
  /\ Len(writeQueue) = QueueCap
  /\ dropLogs = << >>

(***************************************************************************)
(* Properties of header capture.                                           *)
(***************************************************************************)
HasPrefix(s, prefix) == Len(s) >= Len(prefix) /\ SubSeq(s, 1, Len(prefix)) = prefix
HasSuffix(s, suffix) ==
  Len(s) >= Len(suffix) /\ SubSeq(s, Len(s) - Len(suffix) + 1, Len(s)) = suffix

\* the header names the claim calls sensitive
ClaimedSensitive(key) ==
  LET k == ToLower(key) IN
  \/ k \in { <<"a", "u", "t", "h", "o", "r", "i", "z", "a", "t", "i", "o", "n">>,
              <<"c", "o", "o", "k", "i", "e">>,
              <<"s", "e", "t", "-", "c", "o", "o", "k", "i", "e">>,
              <<"x", "-", "m", "a", "n", "a", "g", "e", "m", "e", "n", "t", "-", "k", "e", "y">> }
  \/ Contains(k, <<"a", "p", "i", "-", "k", "e", "y">>)
  \/ HasPrefix(k, <<"x", "-">>) /\ HasSuffix(k, <<"-", "k", "e", "y">>)

\* the headers a request of the model sends and a handler of the model sets
SentHeaders == RequestHeader \cup WriterHeader(JSONType) \cup WriterHeader(EventStreamType)

\* C12: no stored request_headers or response_headers holds the raw value
\* of a sensitive header.
C12_SensitiveHeadersMasked ==
  \A row \in rows : \A h \in SentHeaders :
    (ClaimedSensitive(h.key) /\ Len(h.values) > 0) =>
      <<h.key, h.values[1]>> \notin (row.request_headers \cup row.response_headers)


\* a result a reader got from get, other than an error
GotValue(g) == glocal[g].result.how # "none" /\ ~glocal[g].result.err

\* C14: every successful write clears the query cache, so that a cached
\* aggregate read issued after the write completed reflects the write: the
\* value a get returns was computed from a database that contained every
\* write completed before the get was issued.
C14_ReadAfterWriteReflectsIt ==
  \A g \in Readers :
    GotValue(g) => glocal[g].result.value >= glocal[g].result.issued


\* the readers that are inside the function singleflight runs for the key
InFlight(key, pcs, locals) ==
  { g \in Readers :
      pcs[g] \in {"recheck", "fn", "store", "finish"} /\ locals[g].key = key }

\* C15: per cache key at most one computation is in flight; a get that
\* finds a call in flight for its key waits for it, does not run fn, and
\* returns that call's value or error; a get whose entry is within its TTL
\* returns the stored value without running fn; only the value of a fn that
\* succeeded is ever stored, so an error is not cached.
C15_OneComputationPerKey ==
  [][ /\ \A k \in Keys : Cardinality(InFlight(k, gpc', glocal')) <= 1
      /\ \A g \in Readers :
           /\ (gpc[g] = "do" /\ gpc'[g] # "do" /\ sfMap[glocal[g].key] # 0) =>
                gpc'[g] = "wait"
           /\ (gpc'[g] = "fn" /\ gpc[g] # "fn") => sfMap'[glocal'[g].key] = g
           /\ (gpc[g] = "finish" /\ gpc'[g] = "idle") =>
                \A h \in Readers :
                  (gpc[h] = "wait" /\ glocal[h].key = glocal[g].key) =>
                     /\ gpc'[h] = "woken"
                     /\ glocal'[h].v = glocal'[g].result.value
                     /\ (glocal'[h].how = "failed") = glocal'[g].result.err
           /\ (gpc[g] = "woken" /\ gpc'[g] = "idle") =>
                /\ glocal'[g].result.how = "joined"
                /\ glocal'[g].result.value = glocal[g].v
                /\ glocal'[g].result.err = (glocal[g].how = "failed")
           /\ ( /\ gpc[g] = "check"
                /\ gpc'[g] # "check"
                /\ entries[glocal[g].key] # NoEntry
                /\ glocal[g].now < entries[glocal[g].key].expiresAt ) =>
                /\ gpc'[g] = "idle"
                /\ glocal'[g].result.how = "hit"
                /\ glocal'[g].result.value = entries[glocal[g].key].value
           /\ (gpc'[g] = "store" /\ gpc[g] # "store") =>
                (glocal'[g].how = "ran" /\ glocal'[g].v >= 0)
      /\ \A k \in Keys :
           (entries'[k] # entries[k] /\ entries'[k] # NoEntry) =>
              \E g \in Readers :
                /\ gpc[g] = "store" /\ glocal[g].key = k /\ glocal[g].how = "ran"
                /\ entries'[k].value = glocal[g].v
    ]_vars

C15_Witness ==
  \E g, h \in Readers :
    /\ glocal[g].result.how = "ran"
    /\ glocal[h].result.how = "joined"
    /\ glocal[h].result.value = glocal[g].result.value


\* the entry HandleUsage has just added to the usage log
LastUsage(log) == log[Len(log)]

\* C16: for an enabled usage event, a pending record id in the request
\* context means HandleUsage patches that record and makes no call of
\* EnqueueUsageRecord; no pending id means it patches nothing and calls
\* EnqueueUsageRecord exactly once.
C16_PatchOrEnqueue ==
  [][ (usageEvents' = usageEvents + 1 /\ enabled) =>
        IF LastUsage(usageLog').hadID
        THEN LastUsage(usageLog').patched /\ calls' = calls
        ELSE /\ ~LastUsage(usageLog').patched
             /\ rows' = rows
             /\ calls' = calls + 1
    ]_vars

\* the calls the installed callbacks are claimed to receive, in event order
ClaimsTokenCall(e) == e.enabled /\ e.key # Empty /\ "token" \in e.installed
ClaimsUsageCall(e) == e.enabled /\ e.key # Empty /\ "usage" \in e.installed
HasTokens(e) == e.input > 0 \/ e.output > 0
TokenCounted(e) == ClaimsTokenCall(e) /\ HasTokens(e)
TokenCallsFor(sel) == [i \in 1..Len(sel) |-> <<sel[i].key, sel[i].input, sel[i].output>>]
UsageCallsFor(sel) == [i \in 1..Len(sel) |-> <<sel[i].key>>]

IsBlank(str) == TrimSpace(str) = Empty
ClaimsKept(c) == ~IsBlank(c.RequestID) /\ ~(IsBlank(c.AuthID) /\ IsBlank(c.AuthFile))

AllowedStatuses == {<<"pending">>, <<"success">>, <<"failed">>, <<"skipped">>}

\* C21: every row persisted in request_candidates has a status in
\* {pending, success, failed, skipped}, whether it came through
\* CandidateHook.OnCandidate or through RecordCandidate.
C21_CandidateStatusAllowed ==
  \A i \in 1..Len(candidates) : candidates[i].status \in AllowedStatuses

\* the pair a trace is ordered by
IndexPair(c) == <<c.candidate_index, c.retry_index>>
PairLeq(a, b) == a[1] < b[1] \/ (a[1] = b[1] /\ a[2] <= b[2])

\* C22: GetRequestCandidates(request_id) returns exactly the rows written
\* for that request_id, each once, and none of another request, in
\* ascending order of (candidate_index, retry_index), whatever the order in
\* which the inserts were applied.
C22_TraceOrdered ==
  [][ (lastCall' # lastCall /\ lastCall'.op = "GetRequestCandidates"
         /\ lastCall'.err = "none") =>
        LET got == lastCall'.result
            id == lastCall'.arg
        IN /\ \A i \in 1..Len(got) : got[i].request_id = id
           /\ \A c \in {candidates[i] : i \in 1..Len(candidates)} :
                Cardinality({i \in 1..Len(got) : got[i] = c})
                  = IF c.request_id = id
                    THEN Cardinality({i \in 1..Len(candidates) : candidates[i] = c})
                    ELSE 0
           /\ Len(got) = Cardinality({i \in 1..Len(candidates) :
                                        candidates[i].request_id = id})
           /\ \A i \in 1..(Len(got) - 1) :
                PairLeq(IndexPair(got[i]), IndexPair(got[i + 1]))
    ]_vars

C22_Witness ==
  /\ lastCall.op = "GetRequestCandidates"
  /\ Len(candidates) = 3
  /\ [i \in 1..3 |-> IndexPair(candidates[i])] = <<<<1, 0>>, <<0, 1>>, <<0, 0>>>>
  /\ Len(lastCall.result) = 3
  /\ [i \in 1..3 |-> IndexPair(lastCall.result[i])] = <<<<0, 0>>, <<0, 1>>, <<1, 0>>>>


\* C23: once saveSnapshotFile has returned, with nil or with an error, the
\* snapshot path holds the complete previous snapshot or the complete new
\* one: never a partial file, never no file when there was one before the
\* call; and after an error no temporary file of the call remains.
C23_SnapshotOldOrNew ==
  [][ (snapCall'.returned /\ ~snapCall.returned) =>
        /\ snapFile' \in {snapCall'.before,
                          [ver |-> snapCall'.ver, complete |-> TRUE]}
        /\ (snapFile' # NoFile => snapFile'.complete)
        /\ (snapCall'.before # NoFile => snapFile' # NoFile)
        /\ (snapCall'.err => tmpLeft' = tmpLeft)
    ]_vars

\* the sources of the response body in the order of the fallback chain, as
\* the request's context holds them at exit
BodySources(c) ==
  <<IF c.responseBodyForLog.type = "unset" THEN Empty ELSE c.responseBodyForLog.val,
    IF c.apiResponse.type = "unset" THEN Empty ELSE c.apiResponse.val,
    IF c.panicked.panic THEN c.panicked.msg ELSE Empty,
    c.errors,
    IF FinalStatus(c, c.panicked.panic) >= 400
    THEN <<"HTTP", Space, ToString(FinalStatus(c, c.panicked.panic)), Space>>
           \o StatusText(FinalStatus(c, c.panicked.panic))
    ELSE Empty>>

\* the first source that is not the empty string, empty when there is none
FirstNonEmpty(srcs) ==
  IF \E i \in DOMAIN srcs : srcs[i] # Empty
  THEN srcs[CHOOSE i \in DOMAIN srcs :
              srcs[i] # Empty /\ \A j \in 1..(i - 1) : srcs[j] = Empty]
  ELSE Empty

\* a source counts when it is not blank; a byte slice under
\* response_body_for_log counts as soon as it is not empty
SourceCounts(c, i, src) ==
  IF i = 1 /\ c.responseBodyForLog.type = "bytes"
  THEN src # Empty ELSE TrimSpace(src) # Empty

\* captured bodies are stored as they are, messages trimmed of white space
SourceStored(i, src) == IF i <= 2 THEN src ELSE TrimSpace(src)

FirstNonBlank(c) ==
  IF \E i \in 1..5 : SourceCounts(c, i, BodySources(c)[i])
  THEN LET i == CHOOSE k \in 1..5 :
                  /\ SourceCounts(c, k, BodySources(c)[k])
                  /\ \A j \in 1..(k - 1) : ~SourceCounts(c, j, BodySources(c)[j])
       IN SourceStored(i, BodySources(c)[i])
  ELSE Empty

\* C24 as claimed: the response_body stored by the exit patch is the first
\* non-empty of response_body_for_log, API_RESPONSE, the recovered panic
\* message, the collected framework errors, "HTTP <status> <reason>" when the
\* status is >= 400, and otherwise empty.
C24_BodyFirstNonEmpty ==
  \A r \in Requests :
    (req[r].pc = "done" /\ ExitPatched(r)) =>
      RowOf(r).response_body = FirstNonEmpty(BodySources(req[r]))

\* C24 amended: the response_body stored by the exit patch is the first
\* non-blank of the same sources in the same order, the panic message and
\* the framework errors trimmed of surrounding white space; a status >= 400
\* with no other source stores "HTTP <status> <reason>" with success=false.
C24_BodyFirstNonBlank ==
  \A r \in Requests :
    (req[r].pc = "done" /\ ExitPatched(r)) =>
      /\ RowOf(r).response_body = FirstNonBlank(req[r])
      /\ (req[r].status = 502 /\ ~req[r].panicked.panic /\ NoBodyCaptured(req[r])
            /\ TrimSpace(req[r].errors) = Empty) =>
           /\ RowOf(r).response_body = <<"HTTP", Space, "502", Space, "Bad Gateway">>
           /\ RowOf(r).success = FALSE

C24_Witness ==
  \E r \in Requests :
    /\ req[r].pc = "done" /\ ExitPatched(r)
    /\ req[r].status = 502 /\ ~req[r].panicked.panic
    /\ RowOf(r).response_body = <<"HTTP", Space, "502", Space, "Bad Gateway">>
    /\ RowOf(r).success = FALSE

\* the middleware saw request c and skips it: no default store, no request
\* id, or method GET or OPTIONS
SkippedRequest(c) ==
  /\ c.pc # "new"
  /\ (c.noStore \/ c.requestID = Empty \/ c.method \in {"GET", "OPTIONS"})

\* C30: for a request with method GET or OPTIONS, with no request id, or
\* with no default store, the steps of the middleware (entry and exit)
\* insert and patch nothing, and the downstream handler is invoked exactly
\* once.
C30_SkippedRequestsUntouched ==
  [][\A r \in Requests :
       (SkippedRequest(req'[r]) /\ req'[r].pc # req[r].pc) =>
         /\ rows' = rows
         /\ writeQueue' = writeQueue
         /\ ~req'[r].tracked
         /\ req'[r].hist = << >>
         /\ req'[r].exitPatch = NoValue
         /\ req'[r].nexts = 1]_vars

C30_Witness ==
  \E r \in Requests :
    /\ req[r].pc = "done"
    /\ req[r].method = "OPTIONS" /\ req[r].requestID # Empty /\ ~req[r].noStore
    /\ req[r].status = 502
    /\ req[r].nexts = 1
    /\ rows = {}

\* the ids List returns on page p of the query
PageIDs(query, p) ==
  LET records == ListResult([query EXCEPT !.Page = p]).Records
  IN { records[i] : i \in DOMAIN records }

\* C25: for any ListQuery over an unmodified store, page is coerced to >= 1
\* and page_size into [1,100] (20 when < 1), len(records) <= page_size,
\* total_pages = ceil(total/page_size), the records of pages 1..total_pages
\* together are the rows matching the filters, and no row is on two pages,
\* for every sort column.
C25_ListPaginates ==
  (lastCall.op = "List" /\ lastCall.err = "none") =>
    LET q == lastCall.query
        res == lastCall.result
    IN /\ res.Page >= 1
       /\ q.Page >= 1 => res.Page = q.Page
       /\ res.PageSize \in 1..100
       /\ q.PageSize < 1 => res.PageSize = 20
       /\ q.PageSize \in 1..100 => res.PageSize = q.PageSize
       /\ Len(res.Records) <= res.PageSize
       /\ res.TotalPages * res.PageSize >= res.Total
       /\ (res.TotalPages - 1) * res.PageSize < res.Total
       /\ res.Total = Cardinality(ListFiltered(q))
       /\ \A i, j \in DOMAIN res.Records : i # j => res.Records[i] # res.Records[j]
       /\ UNION { PageIDs(q, p) : p \in 1..res.TotalPages }
            = { row.id : row \in ListFiltered(q) }
       /\ \A p1, p2 \in 1..res.TotalPages :
            p1 # p2 => PageIDs(q, p1) \cap PageIDs(q, p2) = {}

C25_Witness ==
  /\ lastCall.op = "List" /\ lastCall.err = "none"
  /\ Cardinality(rows) = 3
  /\ \A row \in rows : row.model = <<"m", "1">>
  /\ lastCall.query.SortBy = "model" /\ lastCall.query.PageSize = 2
  /\ lastCall.query.APIKey = <<"A">>
  /\ lastCall.result.Page = 2
  /\ lastCall.result.TotalPages = 2
  /\ Len(lastCall.result.Records) = 1

\* the heatmap was read with days = N, a number of days in 1..365
HeatmapRead ==
  /\ lastCall.op = "GetActivityHeatmap" /\ lastCall.err = "none"
  /\ lastCall.days \in 1..365

\* C26: GetActivityHeatmap(days=N) returns exactly N consecutive day
\* entries ending today, total_days = N, days without records zero-filled,
\* and max_requests the maximum of requests over the returned days.
C26_HeatmapHasNDays ==
  HeatmapRead =>
    LET res == lastCall.result
        today == WallClock(lastCall.instant, LocOffset(lastCall.loc)).day
    IN /\ Len(res.Days) = lastCall.days
       /\ res.TotalDays = lastCall.days
       /\ \A i \in DOMAIN res.Days :
            /\ res.Days[i].Date = today - lastCall.days + i
            /\ res.Days[i].Requests = Cardinality(DayRows(res.Days[i].Date))
            /\ DayRows(res.Days[i].Date) = {} => res.Days[i].TotalTokens = 0
       /\ res.MaxRequests = MaxOf({ res.Days[i].Requests : i \in DOMAIN res.Days })

\* hours since the epoch of the instant a stored timestamp denotes
StoredInstant(timestamp) ==
  LET hour == CHOOSE h \in 0..23 : TwoDigits(h) = SubSeq(timestamp, 3, 4)
      off == IF timestamp[5] = "Z" THEN 0
             ELSE CHOOSE o \in 0..14 : TwoDigits(o) = SubSeq(timestamp, 6, 7)
  IN timestamp[1] * 24 + hour - off

\* the rows whose timestamp is the instant of the last read
RowsOfNow ==
  { row \in rows :
      StoredInstant(row.timestamp) = lastCall.instant.day * 24 + lastCall.instant.hour }

\* C27: a record inserted with the current instant as its timestamp, in any
\* timezone, is counted in the last day of the heatmap: GetActivityHeatmap(1)
\* returns one day whose requests include the record.
C27_NowCountedInLastDay ==
  (HeatmapRead /\ lastCall.days = 1) =>
     /\ Len(lastCall.result.Days) = 1
     /\ lastCall.result.Days[1].Requests >= Cardinality(RowsOfNow)

\* GetUsageKPIs was read with a start and an end, the start not after the end
TrendRead ==
  /\ lastCall.op = "GetUsageKPIs" /\ lastCall.err = "none"
  /\ lastCall.startTime.kind = "unix" /\ lastCall.endTime.kind = "unix"
  /\ lastCall.startTime.ts <= lastCall.endTime.ts

\* the local date and hour, and the local date, of instant t in the process's
\* location
LocalHour(t) == WallClock(DayHour(t), LocOffset(lastCall.loc))
LocalDay(t) == LocalHour(t).day

\* C28: trend_bucket is hour when end - start <= 48h and day otherwise, and
\* the trend series is dense over [start, end]: one point for every hour
\* (every day) from that of start to that of end; end = start + 48h gives
\* hour with 49 points, end = start + 48h + 1s gives day.
C28_TrendBucketAndDenseSeries ==
  TrendRead =>
    LET start == lastCall.startTime.ts
        end == lastCall.endTime.ts
        res == lastCall.result
    IN /\ res.TrendBucket = (IF end - start <= 48 * 3600 THEN "hour" ELSE "day")
       /\ end = start + 48 * 3600 => res.TrendBucket = "hour" /\ Len(res.Points) = 49
       /\ end = start + 48 * 3600 + 1 => res.TrendBucket = "day"
       /\ res.TrendBucket = "hour" =>
            /\ Len(res.Points) = ((end \div 3600) - (start \div 3600)) + 1
            /\ \A i \in DOMAIN res.Points :
                 res.Points[i].T = LocalHour(((start \div 3600) + i - 1) * 3600)
       /\ res.TrendBucket = "day" =>
            /\ Len(res.Points) = LocalDay(end) - LocalDay(start) + 1
            /\ \A i \in DOMAIN res.Points : res.Points[i].T = LocalDay(start) + i - 1

\* C29: every point of GetIntervalTimeline has y in (0, 120], the points
\* are in non-decreasing order of x, and when the surviving points exceed
\* limit the output has exactly limit points.
C29_IntervalPointsInRange ==
  (lastCall.op = "GetIntervalTimeline" /\ lastCall.err = "none") =>
    LET points == lastCall.result IN
    /\ \A i \in DOMAIN points : points[i].Y > 0 /\ points[i].Y <= 120
    /\ \A i \in DOMAIN points : \A j \in DOMAIN points :
         i < j => ~TimestampLess(points[j].X, points[i].X)
    /\ (lastCall.limit >= 1 /\ lastCall.survivors > lastCall.limit) =>
         Len(points) = lastCall.limit

\* the pending insert of request r failed
InsertFailed(r) ==
  \E i \in DOMAIN req[r].hist : req[r].hist[i] = "insert_failed"

\* the usage events of request r that took the enqueue path
UsageEnqueues(r) ==
  { i \in DOMAIN req[r].hist : req[r].hist[i] = "usage_enqueue" }

\* C31: if the pending insert fails, the downstream handler is still invoked
\* exactly once, no record id is stored in the context, no exit patch is
\* issued, and a usage event takes the enqueue path (never the patch), so
\* the request gets at most one row per usage event: at most one row.
C31_FailedInsertFallsBack ==
  \A r \in Requests :
    InsertFailed(r) =>
      /\ req[r].nexts = 1
      /\ req[r].recordID = 0
      /\ ExitPatches(r) = {}
      /\ \A i \in DOMAIN req[r].hist : req[r].hist[i] # "usage_patch"
      /\ Cardinality(RowsOf(req[r].requestID)) <= Cardinality(UsageEnqueues(r))
      /\ Cardinality(UsageEnqueues(r)) <= 1 => Cardinality(RowsOf(req[r].requestID)) <= 1

C31_Witness ==
  \E r \in Requests :
    /\ req[r].pc = "done"
    /\ req[r].hist = <<"insert_failed", "usage_enqueue">>
    /\ Cardinality(RowsOf(req[r].requestID)) = 1

\* the rows a step deletes
Deleted == rows \ rows'

\* C32: each batch of a retention cycle deletes at most 1000 rows, all with
\* a timestamp earlier than the cutoff computed at the start of the cycle,
\* oldest first: no row left behind is older than a deleted one.
C32_BatchesDeleteOldestBeforeCutoff ==
  [][Deleted # {} =>
       /\ cleaner.pc = "batch"
       /\ Cardinality(Deleted) <= defaultRetentionBatchSize
       /\ \A row \in Deleted :
            StoredInstant(row.timestamp) < StoredInstant(cleaner.cutoff)
       /\ \A row \in Deleted, kept \in rows' :
            StoredInstant(row.timestamp) <= StoredInstant(kept.timestamp)]_vars

\* C33: a cycle that reads retentionDays <= 0 deletes nothing (every
\* deletion belongs to a cycle that read a positive value);
\* UpdateRetentionDays(n) stores n and returns the value it replaced; a cycle
\* reads retentionDays once, at its start, and keeps that value and the
\* cutoff computed from it whatever UpdateRetentionDays does meanwhile.
C33_DisabledAndSwappedAtomically ==
  [][/\ Deleted # {} => cleaner.pc = "batch" /\ cleaner.days > 0
     /\ cleaner'.updates # cleaner.updates =>
          /\ cleaner'.previous = cleaner.retentionDays
          /\ cleaner'.days = cleaner.days /\ cleaner'.cutoff = cleaner.cutoff
          /\ cleaner'.pc = cleaner.pc
     /\ cleaner'.cycles # cleaner.cycles =>
          /\ cleaner'.days = cleaner.retentionDays
          /\ cleaner.retentionDays <= 0 => cleaner'.pc = "waiting" /\ rows' = rows
          /\ cleaner.retentionDays > 0 =>
               cleaner'.cutoff = RetentionCutoff(cleaner.loc, RetentionNow,
                                                 cleaner.retentionDays)
     /\ cleaner.pc \in {"batch", "pause"} =>
          cleaner'.days = cleaner.days /\ cleaner'.cutoff = cleaner.cutoff]_vars

\* a cycle that read 2 days has deleted a row after UpdateRetentionDays(0)
\* returned 2
C33_Witness ==
  /\ cleaner.pc = "pause"
  /\ cleaner.lastBatch # {}
  /\ cleaner.days = 2
  /\ cleaner.retentionDays = 0
  /\ cleaner.previous = 2

\* C38: Stop never closes a channel twice or panics, in any order relative
\* to Start, and a Stop that found the loop started returns only after the
\* loop has exited.
C38_StopIsIdempotent ==
  /\ ~cleaner.panicked
  /\ \A s \in Stoppers : cleaner.spc[s] = "waited" => cleaner.pc = "exited"

\* the tasks writeLoop has taken off the queue and finished with
Attempted(tid) ==
  /\ \E i \in DOMAIN attempted : attempted[i] = tid
  /\ loopTask # NoTask => loopTask.tid # tid

\* the tasks whose write succeeded
Inserted == { insertLog[i] : i \in DOMAIN insertLog }

\* C34: as long as the store is open and no stop is signalled, every task
\* accepted into the queue is eventually taken off the queue and attempted,
\* whether or not the tasks before it failed.
C34_AcceptedEventuallyAttempted ==
  \A tid \in 1..MaxCalls :
    (tid \in accepted) ~> (Attempted(tid) \/ closed \/ writeStop)

\* a task was attempted and written after an earlier one had failed
C34_Witness ==
  /\ ~closed /\ ~writeStop
  /\ \E i, j \in DOMAIN attempted :
       /\ i < j
       /\ attempted[i] \notin Inserted
       /\ attempted[j] \in Inserted

\* the records whose Record call has returned
Recorded == IF persist.rpc = "idle" THEN persist.data ELSE persist.data - 1

C36_DefaultStoreSingleton ==
  /\ [](/\ Cardinality(defaultStore.open) <= 1
        /\ defaultStore.open \subseteq {defaultStore.ptr}
        /\ \A id \in 1..MaxDefaultCalls : defaultStore.closes[id] <= 1
        /\ \A c \in DefaultCallers : defaultStore.ret[c] # "panic")
  /\ [][\A c \in DefaultCallers :
          (defaultStore.pc[c] = "init" /\ defaultStore.ptr # 0) =>
             (defaultStore'.pc[c] = "init" \/
                /\ defaultStore'.ret[c] = "nil"
                /\ defaultStore'.made = defaultStore.made
                /\ defaultStore'.ptr = defaultStore.ptr)]_vars

\* a second Store is open after the first was closed, and an
\* InitDefaultStore has returned nil while another caller closes it
C36_Witness ==
  /\ defaultStore.made = 2
  /\ defaultStore.closes[1] = 1
  /\ defaultStore.open = {2}
  /\ \E c, d \in DefaultCallers :
       defaultStore.ret[c] = "nil" /\ defaultStore.pc[d] = "closing"

\* C37: an invalidation is not lost to a computation in flight: once
\* clear() has returned, the cache holds no value whose computation read the
\* store before the clear (here: a store with fewer writes than the one the
\* clear followed), so no later get returns one.
C37_ClearNotLostToFlight ==
  \A k \in Keys : entries[k] # NoEntry => entries[k].value >= clearedSeq

\* C39: PatchByID is serialized with Close by the store's mutex: no UPDATE
\* is executed on the database after Close has returned, and while Close
\* holds the mutex no PatchByID is between its closed check and the end of
\* its statement.
C39_NoUpdateAfterClose ==
  /\ [][patcher'.updates # patcher.updates => ~patcher.closeReturned]_vars
  /\ [](patcher.mu # 0 =>
          \A c \in PatchCallers : patcher.pc[c] \notin {"exec", "running"})

\* the requests whose pending record got both patches
BothPatched(r) ==
  /\ \E i \in DOMAIN req[r].hist : req[r].hist[i] = "usage_patch"
  /\ \E i \in DOMAIN req[r].hist : req[r].hist[i] = "exit_patch"

\* the columns of the usage-event patch that the exit patch must leave alone
UsageOnlyColumns ==
  {"provider", "model", "input_tokens", "output_tokens", "total_tokens",
   "cached_tokens", "reasoning_tokens"}

\* C40: the usage-event patch and the exit patch commute on a pending
\* record: applied in either order they give the same row, in particular the
\* same api_key, api_key_masked and is_streaming, and the exit patch sets
\* none of provider, model and the token columns.
C40_PatchesCommute ==
  \A r \in Requests :
    BothPatched(r) =>
      /\ PatchedRow(PatchedRow(RowOf(r), req[r].event), req[r].exitPatch)
           = PatchedRow(PatchedRow(RowOf(r), req[r].exitPatch), req[r].event)
      /\ DOMAIN req[r].exitPatch \cap UsageOnlyColumns = {}

====
